---- MODULE Spec2Model ----
(***************************************************************************)
(* Model of the AI concierge backend (akonale/ai-concierge):               *)
(*   - the Sync Engine   (backend/app/services/sync_service.py)            *)
(*   - the SoR client    (backend/app/services/airtable_service.py)        *)
(*   - the Chat Orchestrator, Retrieval and Completion                     *)
(*                       (backend/app/services/chat_service.py)            *)
(*   - the HTTP handlers (backend/app/api/chat.py) and the card mapper     *)
(*                       (backend/app/utils/mapping.py)                    *)
(*                                                                         *)
(*   - the process: module import, startup, the routes, the event loop     *)
(*     and the scheduler (backend/main.py, backend/app/api/admin.py,       *)
(*     backend/app/api/experiences.py)                                     *)
(*                                                                         *)
(* Every handler is an `async def` without an await on a backend call, so  *)
(* it runs to completion on the event loop: one action per handler, which  *)
(* ends by handing the thread back to the loop.                            *)
(*                                                                         *)
(* Texts are sequences of string tokens, so that str.startswith and string *)
(* concatenation are computed and not assumed.                             *)
(***************************************************************************)
EXTENDS Integers, Sequences, FiniteSets, TLC

VARIABLES
    sor,        \* System of Record (Airtable table): record id -> fields | NoRecord
    index,      \* Vector Index (Chroma collection):  record id -> entry  | NoEntry
    lastSync,   \* log of the last sync-side operation and of the faults it met
    history,    \* conversation_history_store: session id -> sequence of turns
    sent,       \* per session: <<message, reply>> of every message answered by a
                \* successful completion, in the order the requests were processed
    lastReq,    \* log of the last HTTP request: calls made, result, response
    proc        \* the server process: its status, the service singletons, the
                \* event loop (thread, suspended tasks, unread requests,
                \* queued background tasks) and the scheduler

vars == <<sor, index, lastSync, history, sent, lastReq, proc>>

(***************************************************************************)
(* Bounds of the model.                                                    *)
(***************************************************************************)
\* at most this many backend faults are injected into one sync operation
MaxFaults == 1
\* at most this many messages are stored per session (2 turns each)
MaxMsgs == 2
\* at most this many sync triggers are accepted, and as many scheduler ticks fire
MaxRuns == 2

(***************************************************************************)
(* Texts.                                                                  *)
(***************************************************************************)
\* a sentinel test by equality instead of by prefix
StartsWith_Equality(text, prefix) == text = prefix

\* str.startswith(prefix) on token sequences
StartsWith(text, prefix) ==
    /\ Len(text) >= Len(prefix)
    /\ SubSeq(text, 1, Len(prefix)) = prefix

\* a sentinel prefix in the wrong case
ErrorPrefix_LowerCase == <<"error:">>

\* the error sentinel prefix "Error:" tested by the orchestrator
ErrorPrefix == <<"Error:">>

(***************************************************************************)
(* System of Record: ids and records.                                      *)
(***************************************************************************)
Ids == {"rec1", "rec2", "rec3"}

NoRecord == [missing |-> TRUE]
NoEntry  == [absent |-> TRUE]

\* dict.get(key, default) on a record's fields
Get(fields, key, default) == IF key \in DOMAIN fields THEN fields[key] ELSE default

\* the record of the end-to-end scenario
RecYoga ==
    ("Experience Name" :> "Rooftop Yoga") @@
    ("Description" :> "Morning yoga with city views") @@
    ("Price" :> "EUR25") @@
    ("Type" :> "Wellness")

\* a record with a name only (no description, no price, no type)
RecCruise == ("Experience Name" :> "Canal Cruise")

\* a record with neither name nor description
RecBlank == ("Price" :> "EUR10")

\* the record versions external editors can store under an id
Versions == {RecYoga, RecCruise, RecBlank}

SorIds   == {id \in Ids : sor[id] # NoRecord}
IndexIds == {id \in Ids : index[id] # NoEntry}

Sessions == {"s1", "s2"}

\* the logs before any operation
NoSync ==
    [kind |-> "none", id |-> "-", faults |-> {}, airtable_ids |-> {},
     chroma_ids |-> {}, deleted |-> {}, upserted |-> {}, streak |-> 0,
     raised |-> FALSE]
NoReq == [path |-> "none"]

(***************************************************************************)
(* The process and its event loop.                                         *)
(***************************************************************************)
\* no task holds the thread: the event loop is free to run a ready callback
Idle == [kind |-> "idle"]

\* what a complete environment configures: the three AIRTABLE_* variables,
\* OPENAI_API_KEY, a loadable embedding model, a reachable Chroma server
Settings == {"airtable", "openai", "embedding", "chroma"}

\* the service singletons of the three service modules
Services == {"airtable", "sync", "chat"}

\* a process that imported every module with a complete configuration and
\* finished its startup: every singleton exists, the scheduler runs
Serving ==
    [status |-> "serving", env |-> Settings, instances |-> Services,
     scheduler |-> TRUE, thread |-> Idle, suspended |-> <<>>, inbox |-> <<>>,
     background |-> 0, accepted |-> 0, ticks |-> 0]

\* a coroutine returns: the thread goes back to the event loop
Released(p) == [p EXCEPT !.thread = Idle]

(***************************************************************************)
(* Sync Engine.                                                            *)
(***************************************************************************)
\* backend faults a sync operation can meet: <<call, record id or "-">>
GlobalFaults == {<<"enum", "-">>, <<"get", "-">>, <<"delete", "-">>, <<"upsert", "-">>}
RecordFaults == {<<c, id>> : c \in {"fetch", "embed"}, id \in Ids}
Faults == GlobalFaults \cup RecordFaults
\* the sets of at most k faults
RECURSIVE FaultSetsUpTo(_)
FaultSetsUpTo(k) ==
    IF k = 0 THEN {{}}
    ELSE LET S == FaultSetsUpTo(k - 1) IN S \cup {F \cup {f} : F \in S, f \in Faults}

FaultSets == FaultSetsUpTo(MaxFaults)

\* AirtableService.get_all_record_ids: a backend error is swallowed, [] returned
get_all_record_ids(F) == IF <<"enum", "-">> \in F THEN {} ELSE SorIds

\* AirtableService.get_record: the fields, or None on a miss or a backend error
get_record(id, F) ==
    IF <<"fetch", id>> \in F \/ sor[id] = NoRecord THEN NoRecord ELSE sor[id]

\* a test that takes every fetch result for a record
Falsy_Never(fields) == FALSE

\* `if not record_fields`: None and the empty dict are both falsy
Falsy(fields) == fields = NoRecord \/ DOMAIN fields = {}

\* f"{name} - {description}"
text_to_embed(fields) ==
    <<Get(fields, "Experience Name", ""), " - ", Get(fields, "Description", "")>>

\* a test that also skips a record with only one of the two texts
EmptyText_EitherEmpty(text) == text[1] = "" \/ text[3] = ""

\* `not text_to_embed or text_to_embed == " - "`
EmptyText(text) == text = <<"", " - ", "">>

\* SentenceTransformer.encode: a deterministic function of the text
encode(text) == [vector_of |-> text]

\* the fields whose value is a list in the SoR (linked records): every other
\* field of the catalogue holds a string
ListFields == {"Vendor"}

\* the fields whose value is a number in the SoR
NumberFields == {"Duration"}

\* the vendors a record can be linked to
VendorLists == {<<"Zen Studio">>, <<"Zen Studio", "Harbour Tours">>}

\* repr() of a list of strings, as str() gives it
PyListRepr(list) ==
    CASE list = <<"Zen Studio">> -> "['Zen Studio']"
      [] list = <<"Zen Studio", "Harbour Tours">> -> "['Zen Studio', 'Harbour Tours']"
      [] OTHER -> "[]"

\* str(airtable_fields.get(key, "")): a string is kept, a list becomes its
\* repr, a number its decimal digits, the default of a missing field is the
\* empty string
StrOfField(fields, key) ==
    IF key \notin DOMAIN fields THEN ""
    ELSE IF key \in ListFields THEN PyListRepr(fields[key])
    ELSE IF key \in NumberFields THEN ToString(fields[key])
    ELSE fields[key]

\* the metadata keys and the SoR field each one is read from
MetadataField ==
    [experience_name |-> "Experience Name", description |-> "Description",
     duration |-> "Duration", price |-> "Price", type |-> "Type",
     url |-> "URL", vendor |-> "Vendor"]

\* metadata that also records the number of full syncs run before this one
_prepare_chroma_metadata_Stamped(fields) ==
    [experience_name |-> StrOfField(fields, "Experience Name"),
     description     |-> StrOfField(fields, "Description"),
     duration        |-> StrOfField(fields, "Duration"),
     price           |-> StrOfField(fields, "Price"),
     type            |-> StrOfField(fields, "Type"),
     url             |-> StrOfField(fields, "URL"),
     vendor          |-> StrOfField(fields, "Vendor"),
     synced_run      |-> lastSync.streak]

\* metadata that has a key only for the fields the record holds
_prepare_chroma_metadata_SkipMissing(fields) ==
    [key \in {k \in DOMAIN MetadataField : MetadataField[k] \in DOMAIN fields} |->
        StrOfField(fields, MetadataField[key])]

\* SyncService._prepare_chroma_metadata: seven keys, each str(fields.get(key, ""))
_prepare_chroma_metadata(fields) ==
    [key \in DOMAIN MetadataField |-> StrOfField(fields, MetadataField[key])]

\* the index entry built from a record's fields (steps 2-4 of the upsert)
EntryOf(fields) ==
    [embedding |-> encode(text_to_embed(fields)),
     metadata  |-> _prepare_chroma_metadata(fields),
     document  |-> text_to_embed(fields)]

\* a loop that gives up the whole batch when one record fails
UpsertBatch_AbortOnFailure(airtable_ids, F) ==
    IF \E id \in airtable_ids : <<"fetch", id>> \in F \/ <<"embed", id>> \in F
    THEN {}
    ELSE {id \in airtable_ids :
            /\ ~Falsy(get_record(id, F))
            /\ ~EmptyText(text_to_embed(get_record(id, F)))}

\* a loop that collects only the records the index does not hold yet
UpsertBatch_NewOnly(airtable_ids, F) ==
    {id \in airtable_ids \ IndexIds :
        /\ ~Falsy(get_record(id, F))
        /\ ~EmptyText(text_to_embed(get_record(id, F)))
        /\ <<"embed", id>> \notin F}

\* ids of the upsert batch collected by the loop of run_full_airtable_chroma_sync
UpsertBatch(airtable_ids, F) ==
    {id \in airtable_ids :
        /\ ~Falsy(get_record(id, F))
        /\ ~EmptyText(text_to_embed(get_record(id, F)))
        /\ <<"embed", id>> \notin F}

\* the difference taken the wrong way round: airtable_ids - chroma_ids
IdsToDelete_Reversed(airtable_ids) == airtable_ids \ IndexIds

\* chroma_ids - airtable_ids
IdsToDelete(airtable_ids) == IndexIds \ airtable_ids

\* a fault can only be met by a call the run makes: nothing follows a failed
\* collection.get, delete is called for a non-empty ids_to_delete only, a
\* record is fetched if enumerated and embedded if fetched with a text, and
\* upsert is called for a non-empty batch only
FullSyncFaultSets ==
    {F \in FaultSets :
        LET airtable_ids == get_all_record_ids(F) IN
        /\ <<"get", "-">> \in F => F \subseteq {<<"enum", "-">>, <<"get", "-">>}
        /\ <<"delete", "-">> \in F => IdsToDelete(airtable_ids) # {}
        /\ \A id \in Ids : <<"fetch", id>> \in F => id \in airtable_ids
        /\ \A id \in Ids : <<"embed", id>> \in F =>
                id \in UpsertBatch(airtable_ids, F \ {<<"embed", id>>})
        /\ <<"upsert", "-">> \in F => UpsertBatch(airtable_ids, F) # {}}

\* the faults sync_record_to_chroma(id) can meet, each on a call it makes
RecordFaultSets(id) ==
    {F \in FaultSets :
        /\ F \subseteq {<<"fetch", id>>, <<"embed", id>>, <<"upsert", "-">>}
        /\ <<"embed", id>> \in F => id \in UpsertBatch({id}, F \ {<<"embed", id>>})
        /\ <<"upsert", "-">> \in F => id \in UpsertBatch({id}, F)}

\* a single-record sync whose failed upsert is raised again to the caller
ExceptClause_UpsertReraised(op, call) ==
    IF op = "one" /\ call = "upsert" THEN "none" ELSE "caught"

\* the except clause that catches the exception of a failed backend call of
\* run_full_airtable_chroma_sync ("full") or sync_record_to_chroma ("one"),
\* by its file and line; "none" if no clause encloses the call
ExceptClause(op, call) ==
    CASE call = "enum" -> "airtable_service.py:102"
      [] call = "fetch" -> "airtable_service.py:43"
      [] call = "get" -> IF op = "full" THEN "sync_service.py:188" ELSE "none"
      [] call = "delete" -> IF op = "full" THEN "sync_service.py:125" ELSE "none"
      [] call = "embed" -> IF op = "full" THEN "sync_service.py:169" ELSE "sync_service.py:228"
      [] call = "upsert" -> IF op = "full" THEN "sync_service.py:183" ELSE "sync_service.py:244"

\* the operation ends with an exception raised to its caller
Raises(op, F) == \E f \in F : ExceptClause(op, f[1]) = "none"

\* the ids of the collection.delete call of a full sync that returned: none
\* when collection.get raised before it or the delete itself failed
Deleted(airtable_ids, F) ==
    IF <<"get", "-">> \in F \/ <<"delete", "-">> \in F THEN {}
    ELSE IdsToDelete(airtable_ids)

\* a run that gives up its upsert phase when the delete failed
Upserted_AfterDelete(airtable_ids, F) ==
    IF \E f \in F : f[1] \in {"get", "delete", "upsert"} THEN {}
    ELSE UpsertBatch(airtable_ids, F)

\* the ids of the collection.upsert call of a full sync that returned: none
\* when collection.get raised before it or the upsert itself failed
Upserted(airtable_ids, F) ==
    IF <<"get", "-">> \in F \/ <<"upsert", "-">> \in F THEN {}
    ELSE UpsertBatch(airtable_ids, F)

\* the collection after the part of run_full_airtable_chroma_sync that
\* follows the id enumeration met the faults F (collection.get raised:
\* caught by the outer except, nothing is written)
FullSyncResultFrom(airtable_ids, F) ==
    [id \in Ids |->
        IF id \in Upserted(airtable_ids, F) THEN EntryOf(sor[id])
        ELSE IF id \in Deleted(airtable_ids, F) THEN NoEntry
        ELSE index[id]]

\* the collection after run_full_airtable_chroma_sync met the faults F
FullSyncResult(F) == FullSyncResultFrom(get_all_record_ids(F), F)

\* streak: consecutive fault-free full syncs with no other operation between
\* them, counted up to 2
NextStreak(F) ==
    IF F # {} THEN 0
    ELSE IF lastSync.kind = "full" /\ lastSync.faults = {} THEN 2
    ELSE 1

\* SyncService.run_full_airtable_chroma_sync from line 113 on, for the ids
\* its enumeration returned
RunFullSyncFrom(airtable_ids, F) ==
    /\ index' = FullSyncResultFrom(airtable_ids, F)
    /\ lastSync' = [kind |-> "full", id |-> "-", faults |-> F,
                    airtable_ids |-> airtable_ids,
                    chroma_ids |-> IndexIds, deleted |-> Deleted(airtable_ids, F),
                    upserted |-> Upserted(airtable_ids, F), streak |-> NextStreak(F),
                    raised |-> Raises("full", F)]
    /\ proc' = Released(proc)
    /\ UNCHANGED <<sor, history, sent, lastReq>>

\* SyncService.run_full_airtable_chroma_sync
RunFullSync(F) == RunFullSyncFrom(get_all_record_ids(F), F)

\* a single-record sync that embeds and stores the name alone
SyncRecord_NameOnly(id, F) ==
    LET fields == get_record(id, F)
        written == /\ ~Falsy(fields)
                   /\ ~EmptyText(text_to_embed(fields))
                   /\ <<"embed", id>> \notin F
                   /\ <<"upsert", "-">> \notin F
        name == <<Get(fields, "Experience Name", "")>>
    IN
    /\ index' = IF written
                THEN [index EXCEPT ![id] = [embedding |-> encode(name),
                                            metadata |-> _prepare_chroma_metadata(fields),
                                            document |-> name]]
                ELSE index
    /\ lastSync' = [kind |-> "one", id |-> id, faults |-> F,
                    airtable_ids |-> {}, chroma_ids |-> IndexIds,
                    deleted |-> {}, upserted |-> IF written THEN {id} ELSE {},
                    streak |-> 0, raised |-> Raises("one", F)]
    /\ proc' = Released(proc)
    /\ UNCHANGED <<sor, history, sent, lastReq>>

\* a single-record sync that deletes the entry of a record it cannot fetch
SyncRecord_EagerDelete(id, F) ==
    LET fields == get_record(id, F) IN
    /\ index' =
         IF Falsy(fields) THEN [index EXCEPT ![id] = NoEntry]
         ELSE IF \/ EmptyText(text_to_embed(fields))
                 \/ <<"embed", id>> \in F
                 \/ <<"upsert", "-">> \in F
         THEN index
         ELSE [index EXCEPT ![id] = EntryOf(fields)]
    /\ lastSync' = [kind |-> "one", id |-> id, faults |-> F,
                    airtable_ids |-> {}, chroma_ids |-> IndexIds,
                    deleted |-> IF Falsy(fields) THEN {id} \cap IndexIds ELSE {},
                    upserted |-> IF index'[id] # index[id] /\ ~Falsy(fields) THEN {id} ELSE {},
                    streak |-> 0, raised |-> Raises("one", F)]
    /\ proc' = Released(proc)
    /\ UNCHANGED <<sor, history, sent, lastReq>>

\* SyncService.sync_record_to_chroma
SyncRecord(id, F) ==
    LET fields == get_record(id, F)
        written == /\ ~Falsy(fields)
                   /\ ~EmptyText(text_to_embed(fields))
                   /\ <<"embed", id>> \notin F
                   /\ <<"upsert", "-">> \notin F
    IN
    /\ index' = IF written THEN [index EXCEPT ![id] = EntryOf(fields)] ELSE index
    /\ lastSync' = [kind |-> "one", id |-> id, faults |-> F,
                    airtable_ids |-> {}, chroma_ids |-> IndexIds,
                    deleted |-> {}, upserted |-> IF written THEN {id} ELSE {},
                    streak |-> 0, raised |-> Raises("one", F)]
    /\ proc' = Released(proc)
    /\ UNCHANGED <<sor, history, sent, lastReq>>

\* an external editor creates, edits or deletes a record in the SoR
EditSoR(id, v) ==
    /\ sor[id] # v
    /\ sor' = [sor EXCEPT ![id] = v]
    /\ lastSync' = [kind |-> "edit", id |-> "-", faults |-> {},
                    airtable_ids |-> {}, chroma_ids |-> IndexIds,
                    deleted |-> {}, upserted |-> {}, streak |-> 0,
                    raised |-> FALSE]
    /\ UNCHANGED <<index, history, sent, lastReq, proc>>

InitSync ==
    /\ sor = [id \in Ids |-> NoRecord]
    /\ index = [id \in Ids |-> NoEntry]
    /\ lastSync = NoSync
    /\ history = [s \in Sessions |-> <<>>]
    /\ sent = [s \in Sessions |-> <<>>]
    /\ lastReq = NoReq
    /\ proc = Serving

NextSync ==
    \/ \E F \in FullSyncFaultSets : RunFullSync(F)
    \/ \E id \in Ids : \E F \in RecordFaultSets(id) : SyncRecord(id, F)
    \/ \E id \in Ids, v \in Versions \cup {NoRecord} : EditSoR(id, v)

SpecSync == InitSync /\ [][NextSync]_vars

(***************************************************************************)
(* Record shapes: one record of any shape next to a plain one, synced by   *)
(* both paths.                                                             *)
(***************************************************************************)
FieldKeys == {MetadataField[k] : k \in DOMAIN MetadataField}

\* a record with every field, for a name, a description and a vendor list
FullRecord(name, description, vendor) ==
    ("Experience Name" :> name) @@
    ("Description" :> description) @@
    ("Duration" :> 60) @@
    ("Price" :> "EUR25") @@
    ("Type" :> "Wellness") @@
    ("URL" :> "https://example.com/book-yoga") @@
    ("Vendor" :> vendor)

\* the records of every shape: any subset of the fields, a name and a
\* description that can be the empty string, a vendor list of one or two
FieldRecords ==
    {[k \in D |-> FullRecord(name, description, vendor)[k]] :
        name \in {"", "Rooftop Yoga"},
        description \in {"", "Morning yoga with city views"},
        vendor \in VendorLists,
        D \in SUBSET FieldKeys}

\* rec1 has any shape, rec2 has a name only, rec3 was deleted from the
\* SoR after it was indexed
InitFields ==
    /\ \E r \in FieldRecords :
          sor = [id \in Ids |-> CASE id = "rec1" -> r
                                  [] id = "rec2" -> RecCruise
                                  [] OTHER -> NoRecord]
    /\ index = [id \in Ids |-> IF id = "rec3" THEN EntryOf(RecYoga) ELSE NoEntry]
    /\ lastSync = NoSync
    /\ history = [s \in Sessions |-> <<>>]
    /\ sent = [s \in Sessions |-> <<>>]
    /\ lastReq = NoReq
    /\ proc = Serving

NextFields ==
    \/ RunFullSync({})
    \/ \E id \in Ids : SyncRecord(id, {})

SpecFields == InitFields /\ [][NextFields]_vars

(***************************************************************************)
(* Chat Orchestrator: texts, backend outcomes, retrieval, completion.      *)
(***************************************************************************)
Messages == {<<"hello">>, <<"world">>}

\* NUM_RAG_RESULTS
NUM_RAG_RESULTS == 3

\* the failure categories of the OpenAI client, one per except clause
FailureKinds == {"connection", "rate_limit", "authentication", "api_status", "unexpected"}

\* the texts a successful chat completion can carry; one is blank, one begins
\* with the word "Error:" although the backend call succeeded
LlmTexts == {<<"R1">>, <<"R2">>, <<" ">>, <<"Error:", "codes are explained at the desk">>}

Ok(text) == [ok |-> TRUE, text |-> text, kind |-> "-"]
Failed(kind) == [ok |-> FALSE, text |-> <<>>, kind |-> kind]
NotCalled == [ok |-> FALSE, text |-> <<>>, kind |-> "not_called"]

CompletionOutcomes == {Ok(t) : t \in LlmTexts} \cup {Failed(k) : k \in FailureKinds}

\* str.strip(): leading and trailing blank tokens removed
RECURSIVE strip(_)
strip(text) ==
    IF text = <<>> THEN <<>>
    ELSE IF Head(text) = " " THEN strip(Tail(text))
    ELSE IF text[Len(text)] = " " THEN strip(SubSeq(text, 1, Len(text) - 1))
    ELSE text

\* a completion call that returns an empty completion as it is
_call_openai_api_EmptyReturned(c) ==
    IF c.ok
    THEN strip(c.text)
    ELSE CASE c.kind = "connection" ->
                <<"Error:", "Could not connect to the AI service.">>
           [] c.kind = "rate_limit" ->
                <<"Error:", "The AI service is currently busy. Please try again later.">>
           [] c.kind = "authentication" ->
                <<"Error:", "AI service authentication failed.">>
           [] c.kind = "api_status" ->
                <<"Error:", "The AI service returned an error (Status:", "500", ").">>
           [] OTHER ->
                <<"Error:", "An unexpected error occurred while contacting the AI service.">>

\* ChatService._call_openai_api: the reply for one outcome of the backend call
_call_openai_api(c) ==
    IF c.ok
    THEN IF strip(c.text) # <<>> THEN strip(c.text)
         ELSE <<"I received an empty response, could you please rephrase?">>
    ELSE CASE c.kind = "no_client" ->
                <<"Error:", "AI service connection failed.">>
           [] c.kind = "connection" ->
                <<"Error:", "Could not connect to the AI service.">>
           [] c.kind = "rate_limit" ->
                <<"Error:", "The AI service is currently busy. Please try again later.">>
           [] c.kind = "authentication" ->
                <<"Error:", "AI service authentication failed.">>
           [] c.kind = "api_status" ->
                <<"Error:", "The AI service returned an error (Status:", "500", ").">>
           [] OTHER ->
                <<"Error:", "An unexpected error occurred while contacting the AI service.">>

\* a transcription that reports an authentication failure as a connection failure
transcribe_audio_Merged(t) ==
    IF t.ok THEN t.text
    ELSE CASE t.kind \in {"connection", "authentication"} ->
                <<"Error:", "Could not connect to the AI service for transcription.">>
           [] t.kind = "rate_limit" ->
                <<"Error:", "The AI service is currently busy. Please try again later.">>
           [] t.kind = "api_status" ->
                <<"Error:", "The AI service returned an error during transcription (Status:",
                  "500", ").">>
           [] OTHER ->
                <<"Error:", "An unexpected error occurred during audio transcription.">>

\* ChatService.transcribe_audio: the text for one outcome of the backend call
transcribe_audio(t) ==
    IF t.ok THEN t.text
    ELSE CASE t.kind = "no_client" ->
                <<"Error:", "AI service connection failed.">>
           [] t.kind = "connection" ->
                <<"Error:", "Could not connect to the AI service for transcription.">>
           [] t.kind = "rate_limit" ->
                <<"Error:", "The AI service is currently busy. Please try again later.">>
           [] t.kind = "authentication" ->
                <<"Error:", "AI service authentication failed.">>
           [] t.kind = "api_status" ->
                <<"Error:", "The AI service returned an error during transcription (Status:",
                  "500", ").">>
           [] OTHER ->
                <<"Error:", "An unexpected error occurred during audio transcription.">>

\* the ranked id lists collection.query can return: min(n_results, count) ids
RECURSIVE Rankings(_, _)
Rankings(ids, n) ==
    IF n = 0 \/ ids = {} THEN {<<>>}
    ELSE UNION {{<<id>> \o r : r \in Rankings(ids \ {id}, n - 1)} : id \in ids}

\* one outcome of the retrieval's backend calls: the embedding or the query
\* raised, or the query returned ranked ids and some SoR fetches failed
QueryRaised == [raised |-> TRUE, ids |-> <<>>, fetch_failed |-> {}]
QueryOutcomes ==
    {QueryRaised} \cup
    {[raised |-> FALSE, ids |-> r, fetch_failed |-> ff] :
        r \in Rankings(IndexIds, NUM_RAG_RESULTS),
        ff \in {x \in SUBSET (IndexIds \cap SorIds) : Cardinality(x) <= MaxFaults}}

\* the context line of the i-th retrieved id
context_line(i, record_id, fields) ==
    <<"[Result", ToString(i), "(ID:", record_id, "):",
      "Name:", Get(fields, "Experience Name", "N/A"), ",",
      "Description:", Get(fields, "Description", "N/A"), ",",
      "Price:", Get(fields, "Price", "N/A"), ",",
      "Type:", Get(fields, "Type", "N/A"), "]">>

\* fields taken from the metadata the index stores for the i-th retrieved id
Fetched_FromIndex(q, i) ==
    LET metadata == index[q.ids[i]].metadata
    IN  ("Experience Name" :> metadata.experience_name)
            @@ ("Description" :> metadata.description)
            @@ ("Price" :> metadata.price)
            @@ ("Type" :> metadata.type)

\* the fields fetched for the i-th retrieved id (None on a miss or an error)
Fetched(q, i) ==
    IF q.ids[i] \in q.fetch_failed THEN NoRecord ELSE sor[q.ids[i]]

RECURSIVE FetchLoop(_, _), FetchLoop_ResetAtMiss(_, _)

\* a loop that forgets the records matched before a miss
FetchLoop_ResetAtMiss(q, n) ==
    IF n = 0 THEN <<<<>>, <<>>>>
    ELSE LET done == FetchLoop_ResetAtMiss(q, n - 1)
             fields == Fetched(q, n)
         IN  IF Falsy(fields) THEN <<<<>>, <<>>>>
             ELSE <<done[1] \o context_line(n, q.ids[n], fields),
                    Append(done[2], ("id" :> q.ids[n]) @@ fields)>>

\* the loop over retrieved_ids: <<context_parts, retrieved_airtable_records>>
FetchLoop(q, n) ==
    IF n = 0 THEN <<<<>>, <<>>>>
    ELSE LET done == FetchLoop(q, n - 1)
             fields == Fetched(q, n)
         IN  IF Falsy(fields) THEN done
             ELSE <<done[1] \o context_line(n, q.ids[n], fields),
                    Append(done[2], ("id" :> q.ids[n]) @@ fields)>>

\* a retrieval that reports an empty query result as a retrieval error
_retrieve_rag_context_EmptyIsError(q) ==
    IF q.raised
    THEN <<<<"Error:", "Failed to retrieve context information.">>, <<>>>>
    ELSE IF q.ids = <<>>
    THEN <<<<"Error:", "Could not perform context retrieval.">>, <<>>>>
    ELSE LET loop == FetchLoop(q, Len(q.ids)) IN
         IF loop[1] = <<>>
         THEN <<<<"Context details could not be retrieved.">>, <<>>>>
         ELSE <<<<"Context from knowledge base:">> \o loop[1], loop[2]>>

\* ChatService._retrieve_rag_context: <<context string, matched records>>
_retrieve_rag_context(q) ==
    IF q.raised
    THEN <<<<"Error:", "Failed to retrieve context information.">>, <<>>>>
    ELSE IF q.ids = <<>>
    THEN <<<<"No specific context found in the knowledge base.">>, <<>>>>
    ELSE LET loop == FetchLoop(q, Len(q.ids)) IN
         IF loop[1] = <<>>
         THEN <<<<"Context details could not be retrieved.">>, <<>>>>
         ELSE <<<<"Context from knowledge base:">> \o loop[1], loop[2]>>

(***************************************************************************)
(* Mapper and response models.                                             *)
(***************************************************************************)
NoCard == [mapped |-> FALSE]

\* Python's None as the value of an optional string field
PyNone == "None"

\* the first character of a Type value: `airtable_record.get('Type', [])[0]`
FirstChar(v) == CASE v = "Wellness" -> "W" [] OTHER -> v

\* map_airtable_to_card_data: the card, or None when the mapping raised
\* (a record without a Type: `[][0]` is an IndexError)
map_airtable_to_card_data(record) ==
    IF "id" \notin DOMAIN record \/ "Type" \notin DOMAIN record THEN NoCard
    ELSE [mapped |-> TRUE,
          id |-> record["id"],
          name |-> Get(record, "Experience Name", "N/A"),
          description |-> Get(record, "Description", PyNone),
          price |-> Get(record, "Price", ""),
          type |-> FirstChar(record["Type"])]

\* a card list that keeps the None of a record whose mapping failed
MapCards_KeepFailed(records) ==
    [i \in 1..Len(records) |-> map_airtable_to_card_data(records[i])]

\* the cards of the records whose mapping succeeded, in order
RECURSIVE MapCards(_)
MapCards(records) ==
    IF records = <<>> THEN <<>>
    ELSE LET card == map_airtable_to_card_data(Head(records)) IN
         IF card = NoCard THEN MapCards(Tail(records))
         ELSE <<card>> \o MapCards(Tail(records))

\* suggested_experiences_data: a list, or None
List(cards) == [is_none |-> FALSE, cards |-> cards]
None == [is_none |-> TRUE, cards |-> <<>>]

\* ChatResponse as imported by the handlers (`from ..models import`): the
\* class of models/__init__.py has the fields reply, session_id and
\* transcribed_text; a suggested_experiences argument is an ignored extra
ChatResponse(reply, session_id, transcribed_text, suggested_experiences) ==
    [reply |-> reply, session_id |-> session_id, transcribed_text |-> transcribed_text]

(***************************************************************************)
(* History store and prompt.                                               *)
(***************************************************************************)
Turn(role, content) == [role |-> role, content |-> content]

\* system_message of _call_openai_api
system_message ==
    Turn("system", <<"You are a helpful and friendly AI Concierge for a luxury hotel.">>)

\* the order of the keys of a matched record: id, then the fields
FieldOrder == <<"id", "Experience Name", "Description", "Price", "Type">>

\* repr() of a matched record, a dict: its keys and values in order
RECURSIVE DictRepr(_, _)
DictRepr(record, n) ==
    IF n = 0 THEN <<"{">>
    ELSE IF FieldOrder[n] \in DOMAIN record
         THEN DictRepr(record, n - 1) \o <<FieldOrder[n], ":", record[FieldOrder[n]]>>
         ELSE DictRepr(record, n - 1)

\* repr() of the list of matched records
RECURSIVE ListRepr(_)
ListRepr(records) ==
    IF records = <<>> THEN <<"[">>
    ELSE ListRepr(SubSeq(records, 1, Len(records) - 1))
            \o DictRepr(records[Len(records)], Len(FieldOrder)) \o <<"}">>

\* the context as formatted into the f-string: str() of a string is the
\* string, str() of the (context, records) tuple is the repr of the tuple
FormatContext(rag, whole_tuple) ==
    IF whole_tuple THEN <<"(", "'">> \o rag[1] \o <<"'", ",">> \o ListRepr(rag[2]) \o <<"]", ")">>
    ELSE rag[1]

\* context_enhanced_message of _call_openai_api
context_enhanced_message(message, context) ==
    <<"Context:\n">> \o context \o <<"\n\nUser Question: ">> \o message

\* messages of _call_openai_api: the system message, the history, one user turn
messages(message, h, context) ==
    <<system_message>> \o h \o <<Turn("user", context_enhanced_message(message, context))>>

\* no completion call, no prompt
NoPrompt == <<>>

\* a getter that hands out the stored list itself
_get_conversation_history_Shared(h, session_id) ==
    [turns |-> h[session_id], stored |-> TRUE]

\* ChatService._get_conversation_history: `.get(session_id, []).copy()`, a
\* new list holding the turns of the session; `stored` tells whether the
\* list handed out is the list object kept in the store
_get_conversation_history(h, session_id) ==
    [turns |-> h[session_id], stored |-> FALSE]

\* the ways the holder of a list can change it in place
Mutations == {"append", "clear"}

\* list.append / list.clear on a list of turns
Mutated(turns, mutation) ==
    IF mutation = "append" THEN Append(turns, Turn("user", <<"injected">>)) ELSE <<>>

\* the store after the list handed out for a session was changed in place:
\* the change shows in the store only if that list is the stored object
StoreAfter(h, session_id, handed, mutation) ==
    IF handed.stored THEN [h EXCEPT ![session_id] = Mutated(handed.turns, mutation)]
    ELSE h

\* a history update that appends the assistant turn before the user turn
_update_conversation_history_Swapped(h, session_id, user_message, ai_reply) ==
    [h EXCEPT ![session_id] =
        Append(Append(@, Turn("assistant", ai_reply)), Turn("user", user_message))]

\* a history update that stores the user turn in the form it has in the prompt
_update_conversation_history_Augmented(h, session_id, user_message, ai_reply) ==
    [h EXCEPT ![session_id] =
        Append(Append(@, Turn("user", <<"Context:\n", "\n\nUser Question: ">> \o user_message)),
               Turn("assistant", ai_reply))]

\* a history update that stores the user turn and drops the reply
_update_conversation_history_UserOnly(h, session_id, user_message, ai_reply) ==
    [h EXCEPT ![session_id] = Append(@, Turn("user", user_message))]

\* ChatService._update_conversation_history
_update_conversation_history(h, session_id, user_message, ai_reply) ==
    [h EXCEPT ![session_id] =
        Append(Append(@, Turn("user", user_message)), Turn("assistant", ai_reply))]

\* the context argument of a completion call: the context string, or the
\* retrieval's whole (context string, records) tuple
ContextArg(text, whole_tuple) == [called |-> TRUE, text |-> text, whole_tuple |-> whole_tuple]
NoContext == [called |-> FALSE, text |-> <<>>, whole_tuple |-> FALSE]
NoRetrieval == <<<<>>, <<>>>>

\* the points of a request at which an unexpected exception can be raised
\* outside the try blocks of the retrieval, completion and mapping steps
ExcPoints == {"none", "transcribe", "get_history", "update_history"}

\* messages stored over all sessions
Stored == Len(history["s1"]) \div 2 + Len(history["s2"]) \div 2

(***************************************************************************)
(* ChatService.process_chat_message: the value returned, the history left  *)
(* and the calls made, for one outcome of every backend call.              *)
(***************************************************************************)
process_chat_message(session_id, user_message, q, c, exc) ==
    LET caught == [raised |-> FALSE,
                   reply |-> <<"An unexpected error occurred while processing your message.">>,
                   suggestions |-> None,
                   retrieval |-> NoRetrieval, context |-> NoContext,
                   prompt |-> NoPrompt,
                   calls |-> {}, history |-> history]
        rag == _retrieve_rag_context(q)
        context_str == rag[1]
        airtable_records == rag[2]
        rag_error == StartsWith(context_str, ErrorPrefix)
        ai_text_reply == IF rag_error THEN context_str ELSE _call_openai_api(c)
        reply_error == StartsWith(ai_text_reply, ErrorPrefix)
        suggestions == IF rag_error \/ airtable_records = <<>> \/ reply_error
                       THEN <<>> ELSE MapCards(airtable_records)
        calls == {"retrieve"} \cup (IF rag_error THEN {} ELSE {"complete"})
        \* the context string alone is passed to _call_openai_api
        context == IF rag_error THEN NoContext ELSE ContextArg(context_str, FALSE)
        prompt == IF rag_error THEN NoPrompt
                  ELSE messages(user_message,
                                _get_conversation_history(history, session_id).turns,
                                FormatContext(rag, FALSE))
    IN  IF exc = "get_history" THEN caught
        ELSE IF exc = "update_history" /\ ~reply_error
        THEN [caught EXCEPT !.retrieval = rag, !.context = context, !.prompt = prompt,
                            !.calls = calls]
        ELSE [raised |-> FALSE,
              reply |-> ai_text_reply,
              suggestions |-> List(suggestions),
              retrieval |-> rag,
              context |-> context,
              prompt |-> prompt,
              calls |-> calls \cup (IF reply_error THEN {} ELSE {"update"}),
              history |-> IF reply_error THEN history
                          ELSE _update_conversation_history(
                                   history, session_id, user_message, ai_text_reply)]

(***************************************************************************)
(* ChatService.process_audio_message: a 2-tuple (transcribed_text,         *)
(* ai_reply), or an exception raised to the caller.                        *)
(***************************************************************************)
process_audio_message(session_id, t, q, c, exc) ==
    LET text == transcribe_audio(t)
        early(reply) == [raised |-> FALSE, transcribed_text |-> <<>>, reply |-> reply,
                         retrieval |-> NoRetrieval, context |-> NoContext,
                         prompt |-> NoPrompt,
                         calls |-> {"transcribe"}, history |-> history]
        rag == _retrieve_rag_context(q)
        ai_reply == _call_openai_api(c)
        reply_error == StartsWith(ai_reply, ErrorPrefix)
        \* the whole (context, records) tuple is passed to _call_openai_api
        context == ContextArg(rag[1], TRUE)
        prompt == messages(text, _get_conversation_history(history, session_id).turns,
                           FormatContext(rag, TRUE))
        raises == [raised |-> TRUE, transcribed_text |-> text, reply |-> <<>>,
                   retrieval |-> NoRetrieval, context |-> NoContext,
                   prompt |-> NoPrompt,
                   calls |-> {"transcribe"}, history |-> history]
    IN  IF exc = "transcribe"
        THEN early(<<"Error:", "An unexpected issue occurred during audio transcription.">>)
        ELSE IF StartsWith(text, ErrorPrefix)
        THEN early(<<"Audio Processing Error:">> \o text)
        ELSE IF exc = "get_history" THEN raises
        ELSE IF exc = "update_history" /\ ~reply_error
        THEN [raises EXCEPT !.retrieval = rag, !.context = context, !.prompt = prompt,
                            !.calls = {"transcribe", "retrieve", "complete"}]
        ELSE [raised |-> FALSE, transcribed_text |-> text, reply |-> ai_reply,
              retrieval |-> rag,
              context |-> context,
              prompt |-> prompt,
              calls |-> {"transcribe", "retrieve", "complete"}
                            \cup (IF reply_error THEN {} ELSE {"update"}),
              history |-> IF reply_error THEN history
                          ELSE _update_conversation_history(
                                   history, session_id, text, ai_reply)]

(***************************************************************************)
(* HTTP handlers (backend/app/api/chat.py).                                *)
(***************************************************************************)
ErrorResponse(status, detail) == [status |-> status, body |-> [detail |-> detail]]

\* handle_chat_message: the service result is unpacked into two names
handle_chat_message(session_id, message, r) ==
    IF r.raised
    THEN ErrorResponse(500, "An unexpected error occurred while processing your message.")
    ELSE [status |-> 200,
          body |-> ChatResponse(r.reply, session_id, message, r.suggestions)]

\* the tuple process_audio_message returns
AudioValue(r) == <<r.transcribed_text, r.reply>>

\* handle_audio_message: an empty upload is a 400; the service result is
\* unpacked into three names (transcribed_text, ai_reply, suggestions), which
\* raises ValueError for a tuple of another length; any exception is a 500
handle_audio_message(session_id, empty_upload, r) ==
    IF empty_upload THEN ErrorResponse(400, "Received an empty audio file.")
    ELSE IF r.raised \/ Len(AudioValue(r)) # 3
    THEN ErrorResponse(500, "An unexpected error occurred while processing your audio message.")
    ELSE [status |-> 200,
          body |-> ChatResponse(AudioValue(r)[2], session_id, AudioValue(r)[1],
                                AudioValue(r)[3])]

(***************************************************************************)
(* Requests.                                                               *)
(***************************************************************************)
\* how the completion backend answered, as logged for a request
CompletionLog(calls, c) ==
    IF "complete" \notin calls THEN "not_called"
    ELSE IF c.ok THEN "ok" ELSE c.kind

\* the reply the completion call returned, as logged for a request
CompletionReply(calls, c) ==
    IF "complete" \in calls THEN _call_openai_api(c) ELSE <<>>

\* the text the completion backend returned, as logged for a request
CompletionText(calls, c) ==
    IF "complete" \in calls /\ c.ok THEN c.text ELSE <<>>

\* the retrieved ids whose SoR fetch failed, as logged for a request
FetchLog(calls, q) ==
    IF "retrieve" \in calls THEN q.fetch_failed \cap {q.ids[i] : i \in 1..Len(q.ids)}
    ELSE {}

\* how the vector query answered, as logged for a request
QueryLog(calls, q) ==
    IF "retrieve" \notin calls THEN "not_called"
    ELSE IF q.raised THEN "raised" ELSE "ok"

\* the message was answered by a completion that succeeded, with no
\* unexpected exception in the request
Completed(calls, c, exc) ==
    /\ "complete" \in calls
    /\ c.ok /\ ~StartsWith(strip(c.text), ErrorPrefix)
    /\ exc = "none"

\* POST /chat
HandleChat(session_id, message, q, c, exc) ==
    LET rag_error == StartsWith(_retrieve_rag_context(q)[1], ErrorPrefix) IN
    \E r \in {process_chat_message(session_id, message, q, c, exc)} :
    /\ Stored < MaxMsgs
    /\ exc \in {"none", "get_history", "update_history"}
    \* _update_conversation_history can only raise where it is called
    /\ exc = "update_history" =>
          ~rag_error /\ ~StartsWith(_call_openai_api(c), ErrorPrefix)
    /\ history' = r.history
    /\ sent' = IF Completed(r.calls, c, exc)
               THEN [sent EXCEPT ![session_id] = Append(@, <<message, r.reply>>)]
               ELSE sent
    /\ lastReq' = [path |-> "chat", session_id |-> session_id, message |-> message,
                   exc |-> exc, completion |-> CompletionLog(r.calls, c),
                   completion_reply |-> CompletionReply(r.calls, c),
                   query |-> QueryLog(r.calls, q),
                   retrieved_ids |-> IF "retrieve" \in r.calls THEN q.ids ELSE <<>>,
                   fetch_failed |-> FetchLog(r.calls, q),
                   completion_text |-> CompletionText(r.calls, c),
                   raised |-> r.raised, reply |-> r.reply,
                   suggestions |-> r.suggestions,
                   retrieval |-> r.retrieval, context |-> r.context,
                   prompt |-> r.prompt,
                   calls |-> r.calls,
                   response |-> handle_chat_message(session_id, message, r)]
    /\ proc' = Released(proc)
    /\ UNCHANGED <<sor, index, lastSync>>

\* POST /audio
HandleAudio(session_id, empty_upload, t, q, c, exc) ==
    LET transcribed == exc # "transcribe" /\ ~StartsWith(transcribe_audio(t), ErrorPrefix)
        served == ~empty_upload /\ transcribed /\ exc # "get_history"
    IN
    \E r \in {process_audio_message(session_id, t, q, c, exc)} :
    /\ Stored < MaxMsgs
    /\ empty_upload => exc = "none"
    \* a step can only raise where it is reached
    /\ exc = "update_history" => served /\ ~StartsWith(_call_openai_api(c), ErrorPrefix)
    /\ exc = "get_history" => transcribed
    /\ history' = IF empty_upload THEN history ELSE r.history
    /\ sent' = IF ~empty_upload /\ Completed(r.calls, c, exc)
               THEN [sent EXCEPT ![session_id] = Append(@, <<r.transcribed_text, r.reply>>)]
               ELSE sent
    /\ lastReq' = [path |-> "audio", session_id |-> session_id,
                   message |-> IF empty_upload THEN <<>> ELSE r.transcribed_text,
                   exc |-> exc,
                   completion |-> IF empty_upload THEN "not_called"
                                  ELSE CompletionLog(r.calls, c),
                   completion_reply |-> IF empty_upload THEN <<>>
                                        ELSE CompletionReply(r.calls, c),
                   query |-> IF empty_upload THEN "not_called" ELSE QueryLog(r.calls, q),
                   retrieved_ids |-> IF ~empty_upload /\ "retrieve" \in r.calls
                                     THEN q.ids ELSE <<>>,
                   fetch_failed |-> IF empty_upload THEN {} ELSE FetchLog(r.calls, q),
                   completion_text |-> IF empty_upload THEN <<>>
                                       ELSE CompletionText(r.calls, c),
                   transcription |-> IF t = NotCalled THEN "not_called"
                                     ELSE IF t.ok THEN "ok" ELSE t.kind,
                   transcribe_returned |-> IF t = NotCalled THEN <<>>
                                           ELSE transcribe_audio(t),
                   empty_upload |-> empty_upload,
                   raised |-> ~empty_upload /\ r.raised,
                   reply |-> IF empty_upload THEN <<>> ELSE r.reply,
                   retrieval |-> IF empty_upload THEN NoRetrieval ELSE r.retrieval,
                   context |-> IF empty_upload THEN NoContext ELSE r.context,
                   prompt |-> IF empty_upload THEN NoPrompt ELSE r.prompt,
                   calls |-> IF empty_upload THEN {} ELSE r.calls,
                   response |-> handle_audio_message(session_id, empty_upload, r)]
    /\ proc' = Released(proc)
    /\ UNCHANGED <<sor, index, lastSync>>

\* the SoR and the index contents the chat requests are served from: the
\* price of rec1 was edited in the SoR after it was indexed, rec2 was deleted
\* from the SoR after it was indexed, rec3 (a record without a Type) is in sync
ChatSor == [id \in Ids |->
              CASE id = "rec1" -> RecYoga
                [] id = "rec3" -> RecCruise
                [] OTHER -> NoRecord]

\* the version of rec1 that was indexed by the last sync
RecYogaIndexed == ("Price" :> "EUR20") @@ RecYoga

ChatIndexFor(ids) ==
    [id \in Ids |->
        IF id \notin ids THEN NoEntry
        ELSE IF id = "rec1" THEN EntryOf(RecYogaIndexed) ELSE EntryOf(RecCruise)]

ChatIndexes ==
    {ChatIndexFor(ids) : ids \in {{}, {"rec1"}, {"rec1", "rec2"}, {"rec1", "rec2", "rec3"}}}

\* the requests that can arrive, for given sets of sessions, messages,
\* completion outcomes and exception points, each with an outcome for every
\* backend call it may make; an exception raised before the backends are
\* reached leaves them without an outcome (NotCalled, QueryRaised)
QueriesAt(exc) ==
    IF exc \in {"get_history", "transcribe"} THEN {QueryRaised} ELSE QueryOutcomes

CompletionsAt(exc, CC) ==
    IF exc \in {"get_history", "transcribe"} THEN {NotCalled} ELSE CC

ChatRequests(SS, MM, CC, XX) ==
    \E s \in SS, m \in MM, exc \in XX \ {"transcribe"} :
        \E q \in QueriesAt(exc), c \in CompletionsAt(exc, CC) :
            HandleChat(s, m, q, c, exc)

OkTranscriptions(MM) == {Ok(m) : m \in MM}
FailedTranscriptions == {Failed(k) : k \in FailureKinds}

TranscriptionsAt(exc, MM) ==
    IF exc = "transcribe" THEN {NotCalled}
    ELSE OkTranscriptions(MM) \cup FailedTranscriptions

AudioRequests(SS, MM, CC, XX) ==
    \E s \in SS :
        \/ HandleAudio(s, TRUE, NotCalled, QueryRaised, NotCalled, "none")
        \/ \E exc \in XX :
              \E t \in TranscriptionsAt(exc, MM), q \in QueriesAt(exc),
                 c \in CompletionsAt(exc, CC) :
                  HandleAudio(s, FALSE, t, q, c, exc)

\* SpecChat: two sessions, two messages, unexpected exceptions; the index
\* holds rec1 and the completion backend answers R1, R2, a text that begins
\* with "Error:", or fails to connect
ChatCompletionOutcomes ==
    {Ok(<<"R1">>), Ok(<<"R2">>), Ok(<<"Error:", "codes are explained at the desk">>),
     Failed("connection")}

InitRequests ==
    /\ sor = ChatSor
    /\ lastSync = NoSync
    /\ history = [s \in Sessions |-> <<>>]
    /\ sent = [s \in Sessions |-> <<>>]
    /\ lastReq = NoReq
    /\ proc = Serving

InitChat == InitRequests /\ index = ChatIndexFor({"rec1"})

NextChat ==
    \/ ChatRequests(Sessions, Messages, ChatCompletionOutcomes, ExcPoints)
    \/ AudioRequests(Sessions, Messages, ChatCompletionOutcomes, ExcPoints)

SpecChat == InitChat /\ [][NextChat]_vars

\* the list _get_conversation_history hands out (process_chat_message passes
\* it to _call_openai_api) is changed in place by its holder
MutateHanded(session_id, mutation) ==
    LET handed == _get_conversation_history(history, session_id) IN
    /\ history' = StoreAfter(history, session_id, handed, mutation)
    /\ lastReq' = [path |-> "get_history", session_id |-> session_id,
                   handed |-> Mutated(handed.turns, mutation)]
    /\ UNCHANGED <<sor, index, lastSync, sent, proc>>

\* SpecHistory: two sessions, two messages, a completion backend that
\* answers R1 or fails to connect, and holders that change the lists they
\* were handed
NextHistory ==
    \/ ChatRequests(Sessions, Messages, {Ok(<<"R1">>), Failed("connection")}, {"none"})
    \/ AudioRequests(Sessions, Messages, {Ok(<<"R1">>), Failed("connection")}, {"none"})
    \/ \E s \in Sessions, mutation \in Mutations : MutateHanded(s, mutation)

SpecHistory == InitChat /\ [][NextHistory]_vars

\* SpecRag: one session and one message, no unexpected exception; the index
\* is empty, in sync, or holds stale ids; the completion backend answers R1,
\* a text that begins with "Error:", or fails to connect
RagCompletionOutcomes ==
    {Ok(<<"R1">>), Ok(<<"Error:", "codes are explained at the desk">>), Failed("connection")}

InitRag == InitRequests /\ index \in ChatIndexes

NextRag ==
    \/ ChatRequests({"s1"}, {<<"hello">>}, RagCompletionOutcomes, {"none"})
    \/ AudioRequests({"s1"}, {<<"hello">>}, RagCompletionOutcomes, {"none"})

SpecRag == InitRag /\ [][NextRag]_vars

\* what a guest can say in a recording: "hello", or a sentence that begins
\* with the word "Error:"
Utterances == {<<"hello">>, <<"Error:", "404 on the booking page, can you help?">>}

\* SpecLlm: one session and one message, no unexpected exception, the index
\* holds rec1; every outcome of the completion and transcription backends
InitLlm == InitRequests /\ index = ChatIndexFor({"rec1"})

NextLlm ==
    \/ ChatRequests({"s1"}, {<<"hello">>}, CompletionOutcomes, {"none"})
    \/ AudioRequests({"s1"}, Utterances, CompletionOutcomes, {"none"})

SpecLlm == InitLlm /\ [][NextLlm]_vars

(***************************************************************************)
(* The event loop (asyncio, one thread).  A request that arrived waits in  *)
(* the inbox until the loop reads it; a task holds the thread from the     *)
(* moment the loop runs it until it finishes or reaches an await that      *)
(* suspends it; a suspended task waits to be resumed.  The backend clients *)
(* (openai.OpenAI, chromadb.HttpClient, pyairtable.Table,                  *)
(* SentenceTransformer) are synchronous: a task calls them holding the     *)
(* thread.                                                                 *)
(***************************************************************************)
ChatReq(session_id, message) ==
    [kind |-> "chat", session_id |-> session_id, message |-> message]
AudioReq(session_id) == [kind |-> "audio", session_id |-> session_id]
TriggerReq == [kind |-> "trigger"]
ExperiencesReq == [kind |-> "experiences"]
\* the interval job of the scheduler, fired for the n-th time
TickJob(n) == [kind |-> "tick", n |-> n]

\* the service a route gets from its Depends(...) getter
Dependency(kind) ==
    CASE kind \in {"chat", "audio"} -> "chat"
      [] kind = "trigger" -> "sync"
      [] kind = "experiences" -> "airtable"

\* the path a client requests
Route(kind) ==
    CASE kind = "chat" -> "/api/v1/chat"
      [] kind = "audio" -> "/api/v1/audio"
      [] kind = "trigger" -> "/api/v1/admin/trigger-sync"
      [] kind = "experiences" -> "/api/v1/experiences/default"

\* the routes of the routers main.py includes: chat_api.router under
\* /api/v1 and admin_api.router under /api/v1/admin
Mounted == {"/api/v1/chat", "/api/v1/audio", "/api/v1/admin/trigger-sync"}

\* a task: the coroutine serving a request or a job, and the call it is at
Task(kind, at, req) == [kind |-> kind, at |-> at, req |-> req]

\* awaits that hand the thread back at every call of every task
YieldPoints_Everywhere(kind) == {"read", "backend"}

\* the awaits at which a task hands the thread back to the loop: only
\* `await audio_file.read()` of handle_audio_message awaits I/O; the other
\* awaits (process_chat_message, process_audio_message, transcribe_audio)
\* are on coroutines of this program that call the backends synchronously
YieldPoints(kind) == IF kind = "audio" THEN {"read"} ELSE {}

\* the tasks in progress, started and not finished: the one that holds the
\* thread, if any, and the suspended ones
InProgress == (IF proc.thread = Idle THEN <<>> ELSE <<proc.thread>>) \o proc.suspended

\* how many tasks in progress serve a request or a job of one of the kinds
Count(kinds) ==
    Cardinality({i \in 1..Len(InProgress) : InProgress[i].req.kind \in kinds})

\* the chat and audio requests accepted by the network and not answered yet
Unanswered ==
    Cardinality({i \in 1..Len(proc.inbox) : proc.inbox[i].kind \in {"chat", "audio"}})
        + Count({"chat", "audio"})

\* the trigger requests waiting to be read
TriggersUnread ==
    Cardinality({i \in 1..Len(proc.inbox) : proc.inbox[i].kind = "trigger"})

Without(seq, i) == SubSeq(seq, 1, i - 1) \o SubSeq(seq, i + 1, Len(seq))

\* a client's request reaches the server socket: this needs no turn of the loop
Arrive(req) ==
    /\ proc.status = "serving"
    /\ req.kind \in {"chat", "audio"} => Stored + Unanswered < MaxMsgs
    /\ req.kind = "trigger" => proc.accepted + TriggersUnread < MaxRuns
    /\ req.kind = "experiences" => Len(proc.inbox) < MaxRuns
    /\ proc' = [proc EXCEPT !.inbox = Append(@, req)]
    /\ UNCHANGED <<sor, index, lastSync, history, sent, lastReq>>

\* the loop reads a chat or audio request and runs its handler up to its
\* first call: the backends for POST /chat, audio_file.read() for POST /audio
Receive(i) ==
    /\ proc.thread = Idle
    /\ proc.inbox[i].kind \in {"chat", "audio"}
    /\ Dependency(proc.inbox[i].kind) \in proc.instances
    /\ proc' = [proc EXCEPT
                  !.inbox = Without(@, i),
                  !.thread = Task(proc.inbox[i].kind,
                                  IF proc.inbox[i].kind = "audio" THEN "read" ELSE "backend",
                                  proc.inbox[i])]
    /\ UNCHANGED <<sor, index, lastSync, history, sent, lastReq>>

\* the running task reaches an await that suspends it
Yield ==
    /\ proc.thread # Idle
    /\ proc.thread.at \in YieldPoints(proc.thread.kind)
    /\ proc' = [proc EXCEPT !.thread = Idle, !.suspended = Append(@, proc.thread)]
    /\ UNCHANGED <<sor, index, lastSync, history, sent, lastReq>>

\* the loop resumes a suspended task, which runs on to its next call
Resume(i) ==
    /\ proc.thread = Idle
    /\ proc' = [proc EXCEPT
                  !.suspended = Without(@, i),
                  !.thread = [proc.suspended[i] EXCEPT
                                !.at = IF @ = "read" THEN "backend" ELSE "returned"]]
    /\ UNCHANGED <<sor, index, lastSync, history, sent, lastReq>>

\* the running task is past its awaits and runs to its end
Running(kind) ==
    /\ proc.thread # Idle
    /\ proc.thread.kind = kind
    /\ proc.thread.at \in {"backend", "returned"} \ YieldPoints(kind)

\* the completion outcomes and the vector queries of the event-loop models
LoopCompletionOutcomes == {Ok(<<"R1">>), Failed("connection")}
LoopQueryOutcomes == {q \in QueryOutcomes : ~q.raised /\ q.fetch_failed = {}}

\* the outcomes of a call through the OpenAI client: initialize_openai_client
\* returns None without OPENAI_API_KEY, and then no call is made
ClientOutcomes(CC) == IF "openai" \in proc.env THEN CC ELSE {Failed("no_client")}

\* handle_chat_message runs to its end
FinishChat ==
    /\ Running("chat")
    /\ \E q \in LoopQueryOutcomes, c \in ClientOutcomes(LoopCompletionOutcomes) :
          HandleChat(proc.thread.req.session_id, proc.thread.req.message, q, c, "none")

\* handle_audio_message runs from the bytes it read to its end, for a
\* transcription outcome of TT
FinishAudio(TT) ==
    /\ Running("audio")
    /\ \/ HandleAudio(proc.thread.req.session_id, TRUE, NotCalled, QueryRaised,
                      NotCalled, "none")
       \/ \E t \in ClientOutcomes(TT), q \in LoopQueryOutcomes,
             c \in ClientOutcomes(LoopCompletionOutcomes) :
             HandleAudio(proc.thread.req.session_id, FALSE, t, q, c, "none")

\* the response of trigger_sync
Accepted == [status |-> 202, body |-> [message |-> "Airtable to ChromaDB synchronization triggered successfully in the background."]]

\* a queue that runs every task that follows the first in the same step
add_task_Coalesced(background) == 1

\* BackgroundTasks.add_task: one more task to run after the response
add_task(background) == background + 1

\* POST /admin/trigger-sync: trigger_sync queues the full sync as a
\* background task and returns; the task is run after the response is sent
HandleTrigger(i) ==
    /\ proc.thread = Idle
    /\ proc.inbox[i].kind = "trigger"
    /\ Dependency("trigger") \in proc.instances
    /\ lastReq' = [path |-> "trigger-sync", response |-> Accepted]
    /\ proc' = [proc EXCEPT !.inbox = Without(@, i),
                            !.background = add_task(@),
                            !.accepted = @ + 1]
    /\ UNCHANGED <<sor, index, lastSync, history, sent>>

\* the loop runs a queued background task: the full sync starts
RunBackground ==
    /\ proc.thread = Idle
    /\ proc.background > 0
    /\ proc' = [proc EXCEPT !.background = @ - 1,
                            !.thread = Task("sync", "backend", TriggerReq)]
    /\ UNCHANGED <<sor, index, lastSync, history, sent, lastReq>>

\* the scheduler's interval elapsed: the loop runs the job's coroutine
Tick ==
    /\ proc.thread = Idle
    /\ proc.scheduler
    /\ proc.ticks < MaxRuns
    /\ proc' = [proc EXCEPT !.ticks = @ + 1,
                            !.thread = Task("sync", "backend", TickJob(proc.ticks + 1))]
    /\ UNCHANGED <<sor, index, lastSync, history, sent, lastReq>>

\* run_full_airtable_chroma_sync runs to its end, meeting the faults of one
\* of the fault sets FF
FinishSync(FF) ==
    /\ Running("sync")
    /\ \E F \in FullSyncFaultSets \cap FF : RunFullSync(F)

\* SpecLoop: the chat and audio requests of one session, so that its
\* messages are concurrent, as the event loop runs them
InitLoop == InitRequests /\ index = ChatIndexFor({"rec1"})

NextLoop ==
    \/ \E req \in {ChatReq("s1", m) : m \in Messages} \cup {AudioReq("s1")} : Arrive(req)
    \/ \E i \in 1..Len(proc.inbox) : Receive(i)
    \/ Yield
    \/ \E i \in 1..Len(proc.suspended) : Resume(i)
    \/ FinishChat
    \/ FinishAudio(OkTranscriptions(Messages) \cup {Failed("connection")})

SpecLoop == InitLoop /\ [][NextLoop]_vars

\* SpecJobs: the sync triggers, the scheduler's ticks and the full syncs they
\* start, without backend faults, among audio requests whose transcription
\* fails, as the event loop runs them
NextJobs ==
    \/ \E req \in {TriggerReq, AudioReq("s1")} : Arrive(req)
    \/ \E i \in 1..Len(proc.inbox) : Receive(i)
    \/ Yield
    \/ \E i \in 1..Len(proc.suspended) : Resume(i)
    \/ FinishAudio({Failed("connection")})
    \/ \E i \in 1..Len(proc.inbox) : HandleTrigger(i)
    \/ RunBackground
    \/ Tick
    \/ FinishSync({{}})

SpecJobs == InitLoop /\ [][NextJobs]_vars

\* the loop runs its ready callbacks first in, first out: a queued background
\* task is run however often other callbacks take the thread before it, and
\* a task that holds the thread runs on to its next await or to its end
FairJobs ==
    /\ SF_vars(RunBackground)
    /\ WF_vars(FinishSync({{}}))
    /\ WF_vars(FinishAudio({Failed("connection")}))
    /\ WF_vars(Yield)

SpecJobsFair == SpecJobs /\ FairJobs

(***************************************************************************)
(* Interleavings: scheduled and triggered full syncs, single-record syncs, *)
(* chat and audio requests on the one loop, while editors change the SoR.  *)
(* A full sync is taken in two steps: its id enumeration, then the rest.   *)
(* A behaviour has at most MaxRuns full syncs, ticks and triggers          *)
(* together, and one chat or audio request at a time until one is stored.  *)
(***************************************************************************)

\* the sync task calls get_all_record_ids and keeps the ids it returned
Enumerate(EE) ==
    /\ proc.thread # Idle
    /\ proc.thread.kind = "sync"
    /\ "airtable_ids" \notin DOMAIN proc.thread
    /\ \E F \in EE :
          proc' = [proc EXCEPT !.thread =
                     [kind |-> "sync", at |-> proc.thread.at, req |-> proc.thread.req,
                      airtable_ids |-> get_all_record_ids(F), faults |-> F]]
    /\ UNCHANGED <<sor, index, lastSync, history, sent, lastReq>>

\* the sync task runs from collection.get to its end with the ids it keeps
CompleteSync ==
    /\ Running("sync")
    /\ "airtable_ids" \in DOMAIN proc.thread
    /\ RunFullSyncFrom(proc.thread.airtable_ids, proc.thread.faults)

\* the loop runs sync_record_to_chroma(id) for a record an editor saved
UpsertOne(id) ==
    /\ proc.thread = Idle
    /\ SyncRecord(id, {})

\* an editor's change: rec1 is deleted, rec3 is created; an id is not used
\* again once its record was deleted
SorChange ==
    \/ EditSoR("rec1", NoRecord)
    \/ EditSoR("rec3", RecCruise)

\* rec1 is in the SoR and indexed, rec2 was deleted from the SoR after it was
\* indexed, rec3 does not exist yet
InitInterleave ==
    /\ sor = [id \in Ids |-> IF id = "rec1" THEN RecYoga ELSE NoRecord]
    /\ index = ChatIndexFor({"rec1", "rec2"})
    /\ lastSync = NoSync
    /\ history = [s \in Sessions |-> <<>>]
    /\ sent = [s \in Sessions |-> <<>>]
    /\ lastReq = NoReq
    /\ proc = Serving

NextInterleave ==
    \/ /\ Stored + Unanswered = 0
       /\ \E req \in {ChatReq("s1", <<"hello">>), AudioReq("s1")} : Arrive(req)
    \/ proc.ticks + proc.accepted + TriggersUnread < MaxRuns /\ Arrive(TriggerReq)
    \/ \E i \in 1..Len(proc.inbox) : Receive(i)
    \/ Yield
    \/ \E i \in 1..Len(proc.suspended) : Resume(i)
    \/ FinishChat
    \/ FinishAudio({Failed("connection")})
    \/ \E i \in 1..Len(proc.inbox) : HandleTrigger(i)
    \/ RunBackground
    \/ proc.ticks + proc.accepted + TriggersUnread < MaxRuns /\ Tick
    \/ Enumerate({{}, {<<"enum", "-">>}})
    \/ CompleteSync
    \/ \E id \in {"rec1", "rec3"} : UpsertOne(id)
    \/ SorChange

SpecInterleave == InitInterleave /\ [][NextInterleave]_vars

(***************************************************************************)
(* Startup: the module-level code of the service modules, run when main.py *)
(* is imported, and the lifespan of the application.                       *)
(***************************************************************************)
\* airtable_service.py: AirtableService() raises ValueError without the
\* AIRTABLE_* variables; the module catches it and keeps None
airtable_service_instance(env) == "airtable" \in env

\* SyncService.__init__ and ChatService.__init__ raise RuntimeError when the
\* embedding model cannot be loaded or Chroma cannot be reached
RagReady(env) == {"embedding", "chroma"} \subseteq env

\* sync_service.py, module level: `if get_airtable_service():` calls the
\* getter, which raises HTTPException when the Airtable singleton is None;
\* nothing catches it, so the import of the module fails
sync_service_import(env) ==
    IF ~airtable_service_instance(env) THEN "raised"
    ELSE IF RagReady(env) THEN "instance" ELSE "none"

\* chat_service.py, module level: `if airtable_service_instance:` and
\* `except RuntimeError`
chat_service_import(env) ==
    IF airtable_service_instance(env) /\ RagReady(env) THEN "instance" ELSE "none"

\* main.py is imported: line 26 imports sync_service (which imports
\* airtable_service), then the routers import chat_service
ImportModules ==
    /\ proc.status = "importing"
    /\ proc' =
         IF sync_service_import(proc.env) = "raised"
         THEN [proc EXCEPT !.status = "crashed"]
         ELSE [proc EXCEPT
                 !.status = "imported",
                 !.instances =
                     {x \in Services :
                        \/ x = "airtable" /\ airtable_service_instance(proc.env)
                        \/ x = "sync" /\ sync_service_import(proc.env) = "instance"
                        \/ x = "chat" /\ chat_service_import(proc.env) = "instance"}]
    /\ UNCHANGED <<sor, index, lastSync, history, sent, lastReq>>

\* lifespan: get_sync_service() in a try; the job is added and the scheduler
\* started if the sync service exists, else the failure is logged
Startup ==
    /\ proc.status = "imported"
    /\ proc' = [proc EXCEPT !.status = "serving",
                            !.scheduler = "sync" \in proc.instances]
    /\ UNCHANGED <<sor, index, lastSync, history, sent, lastReq>>

\* get_chat_service / get_sync_service raise HTTPException(503) when the
\* singleton is None
Unavailable(i) ==
    /\ proc.thread = Idle
    /\ proc.inbox[i].kind \in {"chat", "audio", "trigger"}
    /\ Dependency(proc.inbox[i].kind) \notin proc.instances
    /\ lastReq' = [path |-> Route(proc.inbox[i].kind),
                   response |-> ErrorResponse(503, "service is not available")]
    /\ proc' = [proc EXCEPT !.inbox = Without(@, i)]
    /\ UNCHANGED <<sor, index, lastSync, history, sent>>

\* the parameters of AirtableService.get_all_records
get_all_records_params == {"fields", "filter_formula"}

\* the order in which the table lists its records
IdOrder == <<"rec1", "rec2", "rec3">>

\* the records get_all_records returns, each with the id
\* get_default_experiences gives it: str(i + 1)
RECURSIVE Numbered(_, _)
Numbered(ids, n) ==
    IF ids = <<>> THEN <<>>
    ELSE IF sor[Head(ids)] = NoRecord THEN Numbered(Tail(ids), n)
    ELSE <<("id" :> ToString(n)) @@ sor[Head(ids)]>> \o Numbered(Tail(ids), n + 1)

\* get_default_experiences: get_all_records is called with max_records=3,
\* a keyword it does not take (TypeError), and without the "Featured" filter;
\* any exception is answered 500
get_default_experiences ==
    IF "max_records" \notin get_all_records_params
    THEN ErrorResponse(500, "Failed to retrieve default experiences.")
    ELSE [status |-> 200,
          body |-> [default_experiences |-> MapCards(Numbered(IdOrder, 1))]]

\* GET /experiences/default: no router of main.py has the route
ServeExperiences(i) ==
    /\ proc.thread = Idle
    /\ proc.inbox[i].kind = "experiences"
    /\ lastReq' = [path |-> Route("experiences"),
                   response |->
                      IF Route("experiences") \notin Mounted
                      THEN ErrorResponse(404, "Not Found")
                      ELSE IF Dependency("experiences") \notin proc.instances
                      THEN ErrorResponse(503, "service is not available")
                      ELSE get_default_experiences]
    /\ proc' = [proc EXCEPT !.inbox = Without(@, i)]
    /\ UNCHANGED <<sor, index, lastSync, history, sent>>

\* SpecStartup: a process started with any subset of its configuration, and
\* the requests it then serves
InitStartup ==
    /\ sor = ChatSor
    /\ index = ChatIndexFor({"rec1"})
    /\ lastSync = NoSync
    /\ history = [s \in Sessions |-> <<>>]
    /\ sent = [s \in Sessions |-> <<>>]
    /\ lastReq = NoReq
    /\ proc \in {[Serving EXCEPT !.status = "importing", !.env = env,
                                 !.instances = {}, !.scheduler = FALSE] :
                    env \in SUBSET Settings}

StartupRequests ==
    {ChatReq("s1", <<"hello">>), TriggerReq, ExperiencesReq}

NextStartup ==
    \/ ImportModules
    \/ Startup
    \/ \E req \in StartupRequests : Arrive(req)
    \/ \E i \in 1..Len(proc.inbox) : Receive(i)
    \/ FinishChat
    \/ \E i \in 1..Len(proc.inbox) : HandleTrigger(i)
    \/ \E i \in 1..Len(proc.inbox) : Unavailable(i)
    \/ \E i \in 1..Len(proc.inbox) : ServeExperiences(i)

SpecStartup == InitStartup /\ [][NextStartup]_vars

(***************************************************************************)
(* Claims about the Sync Engine, checked under SpecSync.                   *)
(***************************************************************************)
\* the last operation was a full sync that met no backend fault
CleanFullSync == lastSync.kind = "full" /\ lastSync.faults = {}

\* every enumerated record is fetched with fields and has a text to embed
AllEmbeddable ==
    \A id \in SorIds : ~Falsy(sor[id]) /\ ~EmptyText(text_to_embed(sor[id]))

\* C1: Empty-SoR guard. When the SoR id enumeration of a full sync returned
\* zero ids (an empty table, or a backend error swallowed by
\* get_all_record_ids), every id that was in the index before the run is
\* still in the index after it.
C1_EmptySorGuard ==
    (lastSync.kind = "full" /\ lastSync.airtable_ids = {})
        => lastSync.chroma_ids \subseteq IndexIds

\* C2: Orphan pruning. After a full sync that met no backend fault, over a
\* non-empty SoR whose records all have fields and a text to embed, the id
\* set of the index is exactly the id set of the SoR.
C2_OrphanPruning ==
    (CleanFullSync /\ SorIds # {} /\ AllEmbeddable) => IndexIds = SorIds

\* C2 witness: index ids {rec1, rec2} and SoR ids {rec2, rec3} before the
\* run: rec1 was deleted, rec2 kept and rec3 added.
C2_Witness ==
    /\ CleanFullSync /\ AllEmbeddable
    /\ lastSync.chroma_ids = {"rec1", "rec2"}
    /\ SorIds = {"rec2", "rec3"}
    /\ IndexIds = {"rec2", "rec3"}

\* the SoR id enumeration of the last full sync did not fail
EnumerationOk == <<"enum", "-">> \notin lastSync.faults

RecordFailed(F, id) == <<"fetch", id>> \in F \/ <<"embed", id>> \in F

\* C19: Per-record failure isolation. In a full sync whose only failures
\* are failures of single records (a fetch, or the embedding and metadata
\* mapping), each failed record alone is left out of the upsert batch (its
\* entry stays as it was) and the run continues: every other SoR record that
\* has a non-empty text is upserted in the same run.
C19_FailureIsolation ==
    [][(/\ lastSync'.kind = "full"
        /\ lastSync'.faults # {}
        /\ \A f \in lastSync'.faults : f[1] \in {"fetch", "embed"})
         => \A id \in SorIds :
               /\ RecordFailed(lastSync'.faults, id) => index'[id] = index[id]
               /\ (/\ ~RecordFailed(lastSync'.faults, id)
                   /\ ~EmptyText(text_to_embed(sor[id])))
                     => index'[id] = EntryOf(sor[id])]_vars

\* C19 witness: the embedding of rec1 failed and rec1 has no entry, while
\* rec2, which had no entry before the run, was upserted by it.
C19_Witness ==
    /\ lastSync.kind = "full"
    /\ lastSync.faults = {<<"embed", "rec1">>}
    /\ index["rec1"] = NoEntry
    /\ "rec2" \in SorIds
    /\ "rec2" \notin lastSync.chroma_ids
    /\ index["rec2"] = EntryOf(sor["rec2"])

\* C20: upsert_one on a missing record. sync_record_to_chroma(id) for an id
\* that has no record in the SoR leaves the Vector Index unchanged: an entry
\* the index holds for the id is not deleted.
C20_MissingRecordNoOp ==
    [][(lastSync'.kind = "one" /\ sor[lastSync'.id] = NoRecord) => index' = index]_vars

\* C20 witness: the single-record sync ran for an id that is gone from the
\* SoR and whose entry is still in the index.
C20_Witness ==
    /\ lastSync.kind = "one"
    /\ lastSync.faults = {}
    /\ sor[lastSync.id] = NoRecord
    /\ index[lastSync.id] # NoEntry

(***************************************************************************)
(* Claims about the Chat Orchestrator, checked under SpecChat (sessions,   *)
(* histories, exceptions) and SpecRag (retrieval, cards, responses).       *)
(***************************************************************************)
\* the text begins with the error sentinel "Error:"
HasErrorPrefix(text) == text # <<>> /\ Head(text) = "Error:"

\* the last operation was a chat or audio request
Requested == lastReq.path \in {"chat", "audio"}

\* the turns of a sequence of <<message, reply>> pairs
RECURSIVE TurnsOf(_)
TurnsOf(pairs) ==
    IF pairs = <<>> THEN <<>>
    ELSE <<[role |-> "user", content |-> pairs[1][1]],
           [role |-> "assistant", content |-> pairs[1][2]]>> \o TurnsOf(Tail(pairs))

\* C4: History ordering. The history of a session is exactly the turns
\* [user:m1, assistant:R1, ..., user:mn, assistant:Rn] of the n messages of
\* that session answered by a successful completion (a reply without the
\* error prefix), in the order they were processed: 2n turns.
C4_HistoryOrdering ==
    \A s \in Sessions :
        /\ history[s] = TurnsOf(sent[s])
        /\ Len(history[s]) = 2 * Len(sent[s])

\* C4 witness: "hello" answered R1, then "world" answered R2, in session s1.
C4_Witness ==
    /\ sent["s1"] = << << <<"hello">>, <<"R1">> >>, << <<"world">>, <<"R2">> >> >>
    /\ history["s1"] = <<[role |-> "user", content |-> <<"hello">>],
                         [role |-> "assistant", content |-> <<"R1">>],
                         [role |-> "user", content |-> <<"world">>],
                         [role |-> "assistant", content |-> <<"R2">>]>>

\* C5: No history pollution on failure. On the text path and on the audio
\* path, a request whose completion call returned a reply that starts with
\* "Error:" leaves the history of every session as it was before the request.
C5_NoHistoryPollution ==
    [][(Requested' /\ HasErrorPrefix(lastReq'.completion_reply))
            => history' = history]_vars

\* C5 witness: an audio request of a session with stored turns, whose
\* completion call failed.
C5_Witness ==
    /\ lastReq.path = "audio"
    /\ lastReq.completion = "connection"
    /\ HasErrorPrefix(lastReq.completion_reply)
    /\ Len(history[lastReq.session_id]) = 2

C7_RetrievalEmpty ==
    (Requested /\ lastReq.query = "ok" /\ lastReq.retrieved_ids = <<>>)
        => /\ ~lastReq.raised
           /\ lastReq.retrieval =
                  <<<<"No specific context found in the knowledge base.">>, <<>>>>
           /\ "complete" \in lastReq.calls
           /\ lastReq.context.called
           /\ lastReq.context.text = <<"No specific context found in the knowledge base.">>
           /\ lastReq.reply = lastReq.completion_reply
           /\ lastReq.path = "chat" =>
                 /\ ~lastReq.context.whole_tuple
                 /\ lastReq.response.status = 200
                 /\ lastReq.response.body.reply = lastReq.completion_reply

\* C7 witness: a text request served from an empty index, answered R1.
C7_Witness ==
    /\ lastReq.path = "chat"
    /\ lastReq.query = "ok" /\ lastReq.retrieved_ids = <<>>
    /\ lastReq.completion = "ok"
    /\ lastReq.response.body.reply = <<"R1">>

\* C8: End-to-end suggestion card. When retrieval matched exactly the record
\* rec1 (Rooftop Yoga, Wellness) and the completion succeeded, the /chat
\* response has suggested_experiences with exactly one card, of id "rec1"
\* and name "Rooftop Yoga".
C8_SuggestionCard ==
    (/\ lastReq.path = "chat"
     /\ lastReq.retrieval[2] = <<("id" :> "rec1") @@ RecYoga>>
     /\ lastReq.completion = "ok" /\ ~HasErrorPrefix(lastReq.reply))
        => /\ lastReq.response.status = 200
           /\ "suggested_experiences" \in DOMAIN lastReq.response.body
           /\ ~lastReq.response.body["suggested_experiences"].is_none
           /\ Len(lastReq.response.body["suggested_experiences"].cards) = 1
           /\ lastReq.response.body["suggested_experiences"].cards[1].id = "rec1"
           /\ lastReq.response.body["suggested_experiences"].cards[1].name = "Rooftop Yoga"

\* C9: Chat and audio endpoints answer every request that is not a
\* request-shape violation (an empty upload) with HTTP success and a body
\* {reply, session_id, transcribed_text}, whether the transcription,
\* retrieval and completion steps fail or succeed; for /audio the
\* transcribed_text is "" when the transcription failed.
C9_AlwaysHttpSuccess ==
    (Requested /\ lastReq.exc = "none" /\ ~(lastReq.path = "audio" /\ lastReq.empty_upload))
        => /\ lastReq.response.status = 200
           /\ {"reply", "session_id", "transcribed_text"}
                  \subseteq DOMAIN lastReq.response.body
           /\ lastReq.response.body.reply = lastReq.reply
           /\ lastReq.response.body.session_id = lastReq.session_id
           /\ (lastReq.path = "audio" /\ HasErrorPrefix(lastReq.transcribe_returned))
                  => lastReq.response.body.transcribed_text = <<>>

\* C10: Top-level catch. On the text path and on the audio path, an
\* unexpected exception raised in the orchestration of a message is caught
\* by the orchestrator: the service call returns a textual reply, with the
\* suggestions empty or absent, and raises nothing to the HTTP handler.
C10_TopLevelCatch ==
    (Requested /\ lastReq.exc # "none")
        => /\ ~lastReq.raised
           /\ lastReq.reply # <<>>
           /\ lastReq.path = "chat" =>
                 (lastReq.suggestions.is_none \/ lastReq.suggestions.cards = <<>>)

\* the Mapper converts the record: it carries a Type
HasType(record) == "Type" \in DOMAIN record

\* C11: Suggestion cards. The suggestions returned for a text message are the
\* cards of the matched records that the Mapper converted, in order (a record
\* that fails mapping is dropped, the request still succeeds), when retrieval
\* matched at least one record, the completion reply does not start with
\* "Error:" and at least one record was converted; in every other case the
\* suggestions are empty or absent.
C11_SuggestionCards ==
    lastReq.path = "chat" =>
        LET records == lastReq.retrieval[2]
            mappable == SelectSeq(records, HasType)
            cards == lastReq.suggestions.cards
            attach == /\ records # <<>>
                      /\ "complete" \in lastReq.calls
                      /\ ~HasErrorPrefix(lastReq.completion_reply)
                      /\ mappable # <<>>
        IN  /\ ~lastReq.raised
            /\ lastReq.response.status = 200
            /\ attach =>
                  /\ ~lastReq.suggestions.is_none
                  /\ Len(cards) = Len(mappable)
                  /\ \A i \in 1..Len(cards) :
                        /\ cards[i].mapped
                        /\ cards[i].id = mappable[i]["id"]
                        /\ cards[i].name = Get(mappable[i], "Experience Name", "N/A")
            /\ ~attach => cards = <<>>

\* C11 witness: retrieval matched rec1 and rec3, the mapping of rec3 (no
\* Type) failed, the completion succeeded and the one card of rec1 is returned.
C11_Witness ==
    /\ lastReq.path = "chat"
    /\ Len(lastReq.retrieval[2]) = 2
    /\ lastReq.retrieval[2][2]["id"] = "rec3"
    /\ lastReq.completion = "ok" /\ ~HasErrorPrefix(lastReq.completion_reply)
    /\ Len(lastReq.suggestions.cards) = 1
    /\ lastReq.suggestions.cards[1].id = "rec1"
    /\ lastReq.response.status = 200

\* C12: Retrieval failure sentinel. When the embedding or the vector query
\* of a request fails, retrieve returns an "Error:"-prefixed string with an
\* empty record list and raises nothing, and on the text path and on the
\* audio path the completion is not called, the reply is the retrieval
\* error, no suggestions are attached and the history is not written.
C12_RetrievalFailureSentinel ==
    (Requested /\ lastReq.query = "raised")
        => /\ ~lastReq.raised
           /\ HasErrorPrefix(lastReq.retrieval[1])
           /\ lastReq.retrieval[2] = <<>>
           /\ "complete" \notin lastReq.calls
           /\ "update" \notin lastReq.calls
           /\ lastReq.reply = lastReq.retrieval[1]
           /\ lastReq.path = "chat" => lastReq.suggestions.cards = <<>>

\* the SoR fetch of a retrieved id succeeded during the last request
FetchedOk(id) == id \notin lastReq.fetch_failed /\ sor[id] # NoRecord

\* the ids shown by the context lines of a context text, in order
LineIds(text) ==
    LET at == {i \in 1..Len(text) : text[i] = "(ID:"}
    IN  [k \in 1..Cardinality(at) |->
            text[(CHOOSE p \in at : Cardinality({x \in at : x < p}) = k - 1) + 1]]

\* C13: Stale-id skip in retrieval. For the list of ids the vector query
\* returned, the matched records are exactly the sub-sequence of the ids
\* whose SoR fetch succeeded, in rank order, with one context line per
\* matched record; a miss is skipped and the retrieval does not fail.
C13_StaleIdSkip ==
    (Requested /\ lastReq.query = "ok")
        => LET matched == SelectSeq(lastReq.retrieved_ids, FetchedOk)
               records == lastReq.retrieval[2]
           IN  /\ ~HasErrorPrefix(lastReq.retrieval[1])
               /\ Len(records) = Len(matched)
               /\ \A i \in 1..Len(records) :
                     /\ records[i]["id"] = matched[i]
                     /\ records[i] = ("id" :> matched[i]) @@ sor[matched[i]]
               /\ LineIds(lastReq.retrieval[1]) = matched

\* C13 witness: the query ranked rec1, rec2, rec3; rec2 is gone from the SoR
\* and the records matched are rec1 and rec3.
C13_Witness ==
    /\ lastReq.path = "chat"
    /\ lastReq.query = "ok"
    /\ lastReq.retrieved_ids = <<"rec1", "rec2", "rec3">>
    /\ Len(lastReq.retrieval[2]) = 2
    /\ lastReq.retrieval[2][1]["id"] = "rec1"
    /\ lastReq.retrieval[2][2]["id"] = "rec3"

\* the vector query of the last request returned ids and every SoR fetch missed
AllMissed ==
    /\ lastReq.query = "ok"
    /\ lastReq.retrieved_ids # <<>>
    /\ \A i \in 1..Len(lastReq.retrieved_ids) : ~FetchedOk(lastReq.retrieved_ids[i])

\* C14: All-miss retrieval. When the vector query returned at least one id
\* and the SoR fetch failed for every id, retrieve returns ("Context details
\* could not be retrieved.", []); this is not an error: the completion is
\* still called, its reply is the reply of the request, and the turn is
\* appended to the session's history exactly when that reply is not an error.
C14_AllMissRetrieval ==
    [][(Requested' /\ AllMissed')
         => /\ ~lastReq'.raised
            /\ lastReq'.retrieval = <<<<"Context details could not be retrieved.">>, <<>>>>
            /\ "complete" \in lastReq'.calls
            /\ lastReq'.context.text = <<"Context details could not be retrieved.">>
            /\ lastReq'.reply = lastReq'.completion_reply
            /\ history' =
                  IF HasErrorPrefix(lastReq'.completion_reply) THEN history
                  ELSE [history EXCEPT ![lastReq'.session_id] =
                          @ \o <<[role |-> "user", content |-> lastReq'.message],
                                 [role |-> "assistant", content |-> lastReq'.reply]>>]]_vars

\* C14 witness: the query ranked rec1 and rec2, the fetch of rec1 failed and
\* rec2 is gone from the SoR; the completion answered R1, stored in the history.
C14_Witness ==
    /\ lastReq.path = "chat"
    /\ AllMissed
    /\ Len(lastReq.retrieved_ids) = 2
    /\ lastReq.fetch_failed = {"rec1"}
    /\ lastReq.reply = <<"R1">>
    /\ history["s1"] # <<>>
    /\ history["s1"][Len(history["s1"])].content = <<"R1">>

\* C15: Authoritative re-fetch. The fields of the matched records, of the
\* context lines and of the suggestion cards of a request are the fields of
\* the SoR records as fetched by this retrieval, never the metadata stored in
\* the Vector Index: where the index is stale, the SoR's current values show.
C15_AuthoritativeRefetch ==
    (Requested /\ lastReq.query = "ok")
        => LET text == lastReq.retrieval[1]
               records == lastReq.retrieval[2]
               at == {p \in 1..Len(text) : text[p] = "(ID:"}
           IN  /\ \A i \in 1..Len(records) :
                     records[i] = ("id" :> records[i]["id"]) @@ sor[records[i]["id"]]
               /\ \A p \in at :
                     /\ text[p + 4] = Get(sor[text[p + 1]], "Experience Name", "N/A")
                     /\ text[p + 7] = Get(sor[text[p + 1]], "Description", "N/A")
                     /\ text[p + 10] = Get(sor[text[p + 1]], "Price", "N/A")
                     /\ text[p + 13] = Get(sor[text[p + 1]], "Type", "N/A")
               /\ lastReq.path = "chat" =>
                     \A j \in 1..Len(lastReq.suggestions.cards) :
                        LET card == lastReq.suggestions.cards[j] IN
                        /\ card.mapped
                        /\ card.name = Get(sor[card.id], "Experience Name", "N/A")
                        /\ card.description = Get(sor[card.id], "Description", PyNone)
                        /\ card.price = Get(sor[card.id], "Price", "")

\* C15 witness: rec1 is matched while the index still stores its old price;
\* the context line and the card show the price of the SoR.
C15_Witness ==
    /\ lastReq.path = "chat"
    /\ lastReq.retrieved_ids = <<"rec1">>
    /\ index["rec1"].metadata.price = "EUR20"
    /\ sor["rec1"]["Price"] = "EUR25"
    /\ Len(lastReq.retrieval[1]) >= 14
    /\ lastReq.retrieval[1][13] = "Price:" /\ lastReq.retrieval[1][14] = "EUR25"
    /\ Len(lastReq.suggestions.cards) = 1
    /\ lastReq.suggestions.cards[1].price = "EUR25"

\* C16: Prompt structure. On every completion call, on the text path and on
\* the audio path, the message sequence is one system prompt, then the prior
\* turns of the session in order (the current message not among them), then
\* one user turn whose content is "Context:\n" + the context text of the
\* retrieval + "\n\nUser Question: " + the message.
C16_PromptStructure ==
    [][(Requested' /\ "complete" \in lastReq'.calls)
         => LET prompt == lastReq'.prompt
                prior == history[lastReq'.session_id]
            IN  /\ Len(prompt) = Len(prior) + 2
                /\ prompt[1].role = "system"
                /\ SubSeq(prompt, 2, Len(prompt) - 1) = prior
                /\ \A i \in 2..Len(prompt) : prompt[i].role # "system"
                /\ prompt[Len(prompt)] =
                      [role |-> "user",
                       content |-> <<"Context:\n">> \o lastReq'.retrieval[1]
                                      \o <<"\n\nUser Question: ">> \o lastReq'.message]]_vars

(***************************************************************************)
(* Claims about the Completion Engine and the Transcription Adapter,       *)
(* checked under SpecLlm.                                                  *)
(***************************************************************************)
\* C17: Backend failure classification. A backend failure of the completion
\* or of the transcription raises nothing: each failure category
\* (connectivity, rate limiting, authentication, API error, unexpected
\* exception) is returned as a string that starts with "Error:", and within
\* one operation the strings of different categories are distinct.
C17_FailureClassification ==
    Requested =>
        /\ lastReq.completion \in FailureKinds =>
              /\ ~lastReq.raised
              /\ HasErrorPrefix(lastReq.completion_reply)
              /\ \A k \in FailureKinds \ {lastReq.completion} :
                    _call_openai_api(Failed(k)) # lastReq.completion_reply
        /\ (lastReq.path = "audio" /\ lastReq.transcription \in FailureKinds) =>
              /\ ~lastReq.raised
              /\ HasErrorPrefix(lastReq.transcribe_returned)
              /\ \A k \in FailureKinds \ {lastReq.transcription} :
                    transcribe_audio(Failed(k)) # lastReq.transcribe_returned

\* C17 witness: an audio request whose transcription failed to authenticate.
C17_Witness ==
    /\ lastReq.path = "audio"
    /\ lastReq.transcription = "authentication"
    /\ lastReq.transcribe_returned = <<"Error:", "AI service authentication failed.">>
    /\ lastReq.response.status # 400

\* the text is empty or made of blanks only
IsBlank(text) == \A i \in 1..Len(text) : text[i] = " "

\* C18: Empty completion. The reply returned by a completion call is never
\* the empty string: a successful completion whose text is empty or blank is
\* replaced by the "please rephrase" text, which is returned as the reply of
\* the request and written to the history like any successful reply.
C18_EmptyCompletion ==
    [][(Requested' /\ "complete" \in lastReq'.calls)
         => /\ lastReq'.completion_reply # <<>>
            /\ (lastReq'.completion = "ok" /\ IsBlank(lastReq'.completion_text)) =>
                  /\ lastReq'.completion_reply =
                        <<"I received an empty response, could you please rephrase?">>
                  /\ lastReq'.reply = lastReq'.completion_reply
                  /\ history' =
                        [history EXCEPT ![lastReq'.session_id] =
                           @ \o <<[role |-> "user", content |-> lastReq'.message],
                                  [role |-> "assistant",
                                   content |-> <<"I received an empty response, could you please rephrase?">>]>>]]_vars

\* C18 witness: a text request whose completion succeeded with a blank text;
\* the "please rephrase" reply is the last turn of the history.
C18_Witness ==
    /\ lastReq.path = "chat"
    /\ lastReq.completion = "ok"
    /\ lastReq.completion_text = <<" ">>
    /\ lastReq.response.body.reply = <<"I received an empty response, could you please rephrase?">>
    /\ history["s1"] # <<>>
    /\ history["s1"][Len(history["s1"])].content =
          <<"I received an empty response, could you please rephrase?">>

(***************************************************************************)
(* Event-loop claims, checked under SpecJobs, SpecJobsFair and SpecLoop.   *)
(***************************************************************************)
\* a full sync started for a trigger holds the thread
TriggeredSyncRuns == proc.thread # Idle /\ proc.thread.req = TriggerReq

\* C21: Sync trigger async and re-callable. The step that handles POST
\* /admin/trigger-sync answers 202 and queues one more background task without
\* running the sync: the index and the sync log are as before, no task holds
\* the thread; this is so whatever number of earlier runs is still queued or
\* running.  Every queued run is then started by the loop, and a started run
\* reaches its end.
C21_TriggerAccepted ==
    /\ [][proc'.accepted # proc.accepted
            => /\ lastReq' = [path |-> "trigger-sync", response |-> Accepted]
               /\ lastReq'.response.status = 202
               /\ proc'.background = proc.background + 1
               /\ proc'.thread = Idle
               /\ index' = index /\ lastSync' = lastSync]_vars
    /\ (proc.background > 0) ~> TriggeredSyncRuns
    /\ TriggeredSyncRuns ~> (proc.thread = Idle /\ lastSync.kind = "full")

\* C21 witness: a second trigger was accepted while the run of the first was
\* still queued.
C21_Witness ==
    /\ lastReq.path = "trigger-sync"
    /\ proc.accepted = 2
    /\ proc.background = 2
    /\ lastSync.kind = "none"

\* C22: No overlapping scheduled syncs. In every reachable state at most one
\* full sync started by the scheduler is in progress (holding the thread or
\* suspended): a tick cannot start a run while the previous one executes.
C22_NoOverlap == Count({"tick"}) <= 1

\* C22 witness: the second scheduled run executes after the first one ended,
\* while another task (an audio request) is suspended.
C22_Witness ==
    /\ proc.ticks = 2
    /\ proc.thread # Idle /\ proc.thread.req = TickJob(2)
    /\ lastSync.kind = "full"
    /\ Len(proc.suspended) > 0

\* C23: Non-blocking suspension points. While a chat message waits on its
\* backend calls and another request has arrived, the loop can read that
\* request: the waiting task has handed the thread back.
C23_NonBlocking ==
    (/\ proc.thread # Idle
     /\ proc.thread.kind = "chat"
     /\ proc.thread.at = "backend"
     /\ proc.inbox # <<>>)
        => ENABLED (\E i \in 1..Len(proc.inbox) : Receive(i))

\* C25: Turn alternation. In every reachable state, with the messages of a
\* session arriving and being served concurrently, every history has an even
\* number of turns, a user turn at every odd position and an assistant turn
\* at every even one, and the k-th pair of turns is the k-th message answered
\* by a successful completion followed by the reply produced for it.
C25_TurnAlternation ==
    \A s \in Sessions :
        /\ Len(history[s]) % 2 = 0
        /\ \A i \in 1..Len(history[s]) :
              history[s][i].role = IF i % 2 = 1 THEN "user" ELSE "assistant"
        /\ Len(sent[s]) = Len(history[s]) \div 2
        /\ \A k \in 1..Len(sent[s]) :
              /\ history[s][2 * k - 1].content = sent[s][k][1]
              /\ history[s][2 * k].content = sent[s][k][2]

\* C25 witness: a chat message of s1 was answered and stored while an audio
\* message of s1, read by the loop before it, is still suspended.
C25_Witness ==
    /\ lastReq.path = "chat"
    /\ history["s1"] = <<[role |-> "user", content |-> <<"hello">>],
                         [role |-> "assistant", content |-> <<"R1">>]>>
    /\ Len(proc.suspended) > 0
    /\ proc.suspended[1].req = AudioReq("s1")

Required(service) ==
    CASE service = "airtable" -> {"airtable"}
      [] service = "sync" -> {"airtable", "embedding", "chroma"}
      [] service = "chat" -> {"airtable", "openai", "embedding", "chroma"}

\* the kind of request a path serves
KindOf(path) ==
    CHOOSE kind \in {"chat", "audio", "trigger", "experiences"} : Route(kind) = path

\* C26: Startup configuration failure. Whatever configuration is missing, the
\* process does not crash, and a request to a route whose service lacks
\* required configuration is answered 503.
C26_StartupFailure ==
    /\ proc.status # "crashed"
    /\ (/\ lastReq.path \in Mounted
        /\ ~(Required(Dependency(KindOf(lastReq.path))) \subseteq proc.env))
          => lastReq.response.status = 503

\* a record flagged as featured in the SoR
Featured(fields) == fields # NoRecord /\ Get(fields, "Featured", FALSE) = TRUE

\* C27: Featured-only default listing. GET /experiences/default is answered
\* 200 with at most N = 3 cards, each the Mapper's projection of a SoR record
\* flagged as featured.
C27_FeaturedOnly ==
    lastReq.path = Route("experiences") =>
        /\ lastReq.response.status = 200
        /\ Len(lastReq.response.body.default_experiences) <= 3
        /\ \A k \in 1..Len(lastReq.response.body.default_experiences) :
              \E id \in SorIds :
                 /\ Featured(sor[id])
                 /\ \E n \in 1..3 :
                       lastReq.response.body.default_experiences[k] =
                          map_airtable_to_card_data(("id" :> ToString(n)) @@ sor[id])

(***************************************************************************)
(* Sync Engine error handling, checked under SpecSync.                     *)
(***************************************************************************)
\* C30: Sync never raises for backend failures. A full sync or a
\* single-record sync that met a failure of the SoR enumeration, of a record
\* fetch, of an embedding, of the index listing, of the delete or of the
\* upsert returns normally: no exception reaches its caller.
C30_SyncNeverRaises ==
    lastSync.kind \in {"full", "one"} => ~lastSync.raised

\* C30 witness: a single-record sync whose upsert failed returned normally
\* and left the index entry of the record as it was.
C30_Witness ==
    /\ lastSync.kind = "one"
    /\ lastSync.faults = {<<"upsert", "-">>}
    /\ ~lastSync.raised
    /\ index[lastSync.id] = NoEntry

(***************************************************************************)
(* Prompt and sentinel claims, checked under SpecChat and SpecLlm.         *)
(***************************************************************************)
\* the largest prompt the claimed bound allows in this model: the system
\* message, the turns of all but the last message a session can have stored
\* before a request, and the question
PromptBound == 2 * MaxMsgs - 2

\* C28: Bounded prompt. The number of messages in the prompt of a completion
\* call stays within a bound that does not grow with the number of messages
\* the session has stored: the prompt never carries more than PromptBound
\* messages.
C28_BoundedPrompt ==
    (Requested /\ lastReq.prompt # NoPrompt) => Len(lastReq.prompt) <= PromptBound

\* C29: Sentinel prefix equals tagged result. The history write is skipped
\* exactly when the completion call failed, and the audio path is cut short
\* before the retrieval exactly when the transcription call failed: a
\* completion or a transcription that succeeded is handled as a success,
\* whatever its text begins with.
C29_SentinelEqualsTagged ==
    Requested =>
        /\ "complete" \in lastReq.calls =>
              ("update" \in lastReq.calls <=> lastReq.completion = "ok")
        /\ (lastReq.path = "audio" /\ "transcribe" \in lastReq.calls) =>
              ("retrieve" \in lastReq.calls <=> lastReq.transcription = "ok")

(***************************************************************************)
(* Claims about the two sync paths and the record shapes.                  *)
(***************************************************************************)
\* C31: sync_record_to_chroma(id) on a record found in the SoR, with no
\* backend failure, leaves under id exactly what a full sync run from the
\* same state would leave under id (embedding, metadata and document text
\* of the record, or the earlier content for a record without text), and
\* changes no other entry
C31_UpsertOneAsFullSync ==
    [][(/\ lastSync'.kind = "one"
        /\ lastSync'.faults = {}
        /\ sor[lastSync'.id] # NoRecord)
        => /\ index'[lastSync'.id] = FullSyncResult({})[lastSync'.id]
           /\ lastSync'.upserted = {lastSync'.id} =>
                /\ index'[lastSync'.id].document = text_to_embed(sor[lastSync'.id])
                /\ index'[lastSync'.id].embedding = encode(text_to_embed(sor[lastSync'.id]))
                /\ index'[lastSync'.id].metadata = _prepare_chroma_metadata(sor[lastSync'.id])
           /\ \A j \in Ids \ {lastSync'.id} : index'[j] = index[j]]_vars

\* a record with a vendor list was written by the single-record path while
\* the orphan entry of rec3 and the missing entry of rec2 stayed as they were
C31_Witness ==
    /\ lastSync.kind = "one"
    /\ lastSync.id = "rec1"
    /\ lastSync.upserted = {"rec1"}
    /\ "Vendor" \in DOMAIN sor["rec1"]
    /\ index["rec1"] = EntryOf(sor["rec1"])
    /\ index["rec2"] = NoEntry
    /\ index["rec3"] # NoEntry
\* a record whose name and description are both empty or missing
Blank(fields) ==
    /\ Get(fields, "Experience Name", "") = ""
    /\ Get(fields, "Description", "") = ""

\* C32: a record whose name and description are both empty is not upserted
\* by a full sync or by a single-record sync (its index entry stays as it
\* was) and the full sync still upserts the other records; a record found
\* with a name or a description is upserted by both paths when no backend
\* call fails
C32_EmptyTextSkip ==
    [][\A id \in SorIds :
        /\ (lastSync'.kind = "full" /\ Blank(sor[id])) =>
              /\ id \notin lastSync'.upserted
              /\ index'[id] = index[id]
              /\ \A j \in SorIds : ~Blank(sor[j]) =>
                    j \in lastSync'.upserted /\ index'[j] = EntryOf(sor[j])
        /\ (lastSync'.kind = "one" /\ lastSync'.id = id /\ Blank(sor[id])) =>
              lastSync'.upserted = {} /\ index' = index
        /\ (lastSync'.kind = "full" /\ ~Blank(sor[id])) =>
              id \in lastSync'.upserted /\ index'[id] = EntryOf(sor[id])
        /\ (lastSync'.kind = "one" /\ lastSync'.id = id /\ ~Blank(sor[id])) =>
              lastSync'.upserted = {id} /\ index'[id] = EntryOf(sor[id])]_vars

\* a full sync skipped rec1, which has fields but an empty name and no
\* description, and upserted rec2, which has a name and no description
C32_Witness ==
    /\ lastSync.kind = "full"
    /\ Blank(sor["rec1"])
    /\ "Experience Name" \in DOMAIN sor["rec1"]
    /\ "Price" \in DOMAIN sor["rec1"]
    /\ index["rec1"] = NoEntry
    /\ "Description" \notin DOMAIN sor["rec2"]
    /\ "rec2" \in lastSync.upserted
    /\ index["rec2"] = EntryOf(sor["rec2"])
\* the seven metadata keys
MetadataKeys ==
    {"experience_name", "description", "duration", "price", "type", "url", "vendor"}

\* the strings a metadata value can be for the records of FieldRecords
MetadataStrings ==
    {"", "Rooftop Yoga", "Canal Cruise", "Morning yoga with city views", "60",
     "EUR25", "Wellness", "https://example.com/book-yoga",
     "['Zen Studio']", "['Zen Studio', 'Harbour Tours']"}

\* C34: for every SoR record the metadata has exactly the seven keys, every
\* value is a string (the empty string for a missing field, the field's
\* string itself, the digits of a number, the repr of a list), and the
\* metadata is a function of the record's fields alone: every sync of the
\* same record, by either path, stores the same metadata
C34_MetadataMapping ==
    [][\A id \in SorIds :
        LET fields == sor[id]
            m == _prepare_chroma_metadata(fields)
        IN  /\ DOMAIN m = MetadataKeys
            /\ \A k \in MetadataKeys :
                  /\ m[k] \in MetadataStrings
                  /\ MetadataField[k] \notin DOMAIN fields => m[k] = ""
                  /\ (MetadataField[k] \in DOMAIN fields /\ k \notin {"vendor", "duration"}) =>
                        m[k] = fields[MetadataField[k]]
                  /\ (MetadataField[k] \in DOMAIN fields /\ k = "duration") =>
                        m[k] = "60"
                  /\ (MetadataField[k] \in DOMAIN fields /\ k = "vendor") =>
                        m[k] = (IF Len(fields["Vendor"]) = 1 THEN "['Zen Studio']"
                                ELSE "['Zen Studio', 'Harbour Tours']")
            /\ id \in lastSync'.upserted => index'[id].metadata = m
            /\ (index[id] # NoEntry /\ index'[id] # NoEntry) =>
                  index'[id].metadata = index[id].metadata]_vars

\* the entry of a record with a two-vendor list and fields missing was
\* written by one path and then written again by the other
C34_Witness ==
    /\ lastSync.kind = "full"
    /\ lastSync.chroma_ids = {"rec1", "rec2", "rec3"}
    /\ "rec1" \in lastSync.upserted
    /\ "Vendor" \in DOMAIN sor["rec1"]
    /\ "URL" \notin DOMAIN sor["rec1"]
    /\ index["rec1"].metadata.vendor = "['Zen Studio', 'Harbour Tours']"
    /\ index["rec1"].metadata.url = ""
    /\ DOMAIN index["rec1"].metadata = MetadataKeys

\* the entry under id holds the metadata and the document text of the
\* current SoR record
Fresh(id) ==
    /\ id \in SorIds
    /\ index[id].metadata = _prepare_chroma_metadata(sor[id])
    /\ index[id].document = text_to_embed(sor[id])

\* C35 as stated: after a full sync that ran with a non-empty SoR
\* enumeration and no backend failure, every index entry has the metadata
\* and the document text of the current SoR record with the same id
C35_FreshAsStated ==
    (CleanFullSync /\ lastSync.airtable_ids # {})
        => \A id \in IndexIds : Fresh(id)

\* C35 amended: after such a full sync every index entry belongs to a
\* current SoR record, and has that record's metadata and document text
\* unless the record's name and description are both empty (the run skips
\* such a record and its entry keeps the content of the earlier version)
C35_FreshWithText ==
    (CleanFullSync /\ lastSync.airtable_ids # {})
        => \A id \in IndexIds :
              /\ id \in SorIds
              /\ ~Blank(sor[id]) => Fresh(id)

\* a first clean full sync after an edit: the entry of rec1 was rewritten
\* from the current record, the entry of rec2, whose record lost its name
\* and description, was left as it was
C35_Witness ==
    /\ CleanFullSync
    /\ lastSync.streak = 1
    /\ lastSync.chroma_ids = {"rec1", "rec2"}
    /\ lastSync.upserted = {"rec1"}
    /\ sor["rec1"] = RecCruise /\ Fresh("rec1")
    /\ sor["rec2"] = RecBlank /\ index["rec2"] = EntryOf(RecYoga)

\* C36: whatever the interleaving of full syncs (scheduled or triggered),
\* single-record syncs, chat requests and SoR edits, a full sync whose id
\* enumeration succeeded deletes no index entry whose id is in the SoR when
\* the delete is made
C36_NoLivePruned ==
    [][(/\ lastSync' # lastSync
        /\ lastSync'.kind = "full"
        /\ <<"enum", "-">> \notin lastSync'.faults)
        => /\ lastSync'.deleted \cap SorIds = {}
           /\ \A id \in SorIds : index[id] # NoEntry => index'[id] # NoEntry]_vars

\* a full sync deleted the orphan entry of rec2 and kept the entry of rec3,
\* a record created after startup and indexed by a single-record sync, in a
\* process that also answered a chat request
C36_Witness ==
    /\ lastSync.kind = "full"
    /\ <<"enum", "-">> \notin lastSync.faults
    /\ lastSync.deleted = {"rec2"}
    /\ "rec3" \in lastSync.chroma_ids
    /\ "rec3" \in SorIds
    /\ index["rec3"] # NoEntry
    /\ Stored > 0

\* C39: a full sync whose batch delete failed deletes nothing and still
\* fetches, embeds and upserts every enumerated record that has a text and
\* met no failure of its own; a full sync whose index id enumeration
\* (collection.get) failed makes no delete and no upsert and leaves the
\* index as it was
C39_DeleteFailureContinues ==
    [][lastSync'.kind = "full" =>
        /\ <<"delete", "-">> \in lastSync'.faults =>
              /\ lastSync'.deleted = {}
              /\ \A id \in IndexIds : index'[id] # NoEntry
              /\ <<"upsert", "-">> \notin lastSync'.faults =>
                    \A id \in lastSync'.airtable_ids :
                        (~Blank(sor[id]) /\ ~RecordFailed(lastSync'.faults, id)) =>
                            id \in lastSync'.upserted /\ index'[id] = EntryOf(sor[id])
        /\ <<"get", "-">> \in lastSync'.faults =>
              /\ lastSync'.deleted = {}
              /\ lastSync'.upserted = {}
              /\ index' = index]_vars

\* the delete of the orphan entry of one record failed, the entry is still
\* there, and the run wrote the entry of a record that was not indexed
C39_Witness ==
    /\ lastSync.kind = "full"
    /\ lastSync.faults = {<<"delete", "-">>}
    /\ \E id \in lastSync.chroma_ids : sor[id] = NoRecord /\ index[id] # NoEntry
    /\ \E id \in lastSync.upserted :
          id \notin lastSync.chroma_ids /\ index[id] = EntryOf(sor[id])

(***************************************************************************)
(* Claims about the mapper.                                                *)
(***************************************************************************)
\* C33: a matched record that has an id maps to a card whenever only
\* optional fields are missing: when the orchestrator maps the matched
\* records of a request (retrieval and completion succeeded), it gets one
\* card per matched record, in order, with the record's id, and the card
\* of a record without a Type has its type absent
C33_OptionalFieldsMap ==
    (/\ lastReq.path = "chat"
     /\ lastReq.exc = "none"
     /\ "update" \in lastReq.calls)
        => /\ ~lastReq.suggestions.is_none
           /\ Len(lastReq.suggestions.cards) = Len(lastReq.retrieval[2])
           /\ \A i \in 1..Len(lastReq.retrieval[2]) :
                 /\ lastReq.suggestions.cards[i].id = lastReq.retrieval[2][i]["id"]
                 /\ "Type" \notin DOMAIN lastReq.retrieval[2][i] =>
                       lastReq.suggestions.cards[i].type = PyNone
(***************************************************************************)
(* Claims about the history and the outcome of a request.                  *)
(***************************************************************************)
\* C37: a chat or audio request that the handler answers with an error
\* status leaves the session histories as they were before the request
C37_FailedRequestKeepsHistory ==
    [][(lastReq'.path \in {"chat", "audio"} /\ lastReq'.response.status # 200)
        => history' = history]_vars
\* C38: a request that writes the history appends, to its own session
\* only, a user turn that is the raw message of the request (the
\* transcribed text for audio), not the context-augmented text sent to the
\* completion backend, and an assistant turn that is the reply the
\* orchestrator returns for the request (the reply of the response body on
\* /chat); hence every stored user turn is a raw message
C38_HistoryContent ==
    [][(lastReq'.path \in {"chat", "audio"} /\ history' # history)
        => LET s == lastReq'.session_id
               raw == IF lastReq'.path = "audio" THEN lastReq'.transcribe_returned
                      ELSE lastReq'.message
               asked == lastReq'.prompt[Len(lastReq'.prompt)]
           IN  /\ \A o \in Sessions \ {s} : history'[o] = history[o]
               /\ history'[s] = history[s] \o <<Turn("user", raw),
                                                 Turn("assistant", lastReq'.reply)>>
               /\ asked.role = "user"
               /\ asked.content = context_enhanced_message(raw, lastReq'.context.text)
                    \/ lastReq'.context.whole_tuple
               /\ asked.content # raw
               /\ lastReq'.reply = lastReq'.completion_reply
               /\ lastReq'.path = "chat" => lastReq'.response.body.reply = lastReq'.reply
               /\ \A o \in Sessions : \A i \in 1..Len(history'[o]) :
                     IF i % 2 = 1
                     THEN history'[o][i].role = "user" /\ history'[o][i].content \in Messages
                     ELSE history'[o][i].role = "assistant"]_vars

\* an audio request of a session with two stored turns added the
\* transcribed text and the reply; the prompt it sent had the stored turns
\* and the context-augmented question
C38_Witness ==
    /\ lastReq.path = "audio"
    /\ "update" \in lastReq.calls
    /\ Len(lastReq.prompt) = 4
    /\ Len(history[lastReq.session_id]) = 4
    /\ history[lastReq.session_id][3] = Turn("user", lastReq.transcribe_returned)
    /\ history[lastReq.session_id][4] = Turn("assistant", lastReq.reply)
    /\ lastReq.prompt[4].content # lastReq.transcribe_returned

====
